---------------------------- MODULE Spec2Model ----------------------------
(***************************************************************************)
(* A model of ultimate-notion: the Database facade (schema reflection,    *)
(* schema assignment, schema-driven page creation) and the multi-valued   *)
(* property values (MultiSelect, Relation, Files).                        *)
(*                                                                         *)
(* Several specifications share the module.  SpecDB drives one Database   *)
(* object through its public operations; SpecProp drives one multi-valued *)
(* property value through its in-place operators; SpecValue composes,     *)
(* reads and compares single-valued property values; SpecBlocks drives    *)
(* the blocks endpoint and SpecEndpoint the databases, pages and search   *)
(* endpoints over the raw transport; SpecMs drives a MultiSelect built    *)
(* empty; SpecNative applies the operators of RichText, Number, Formula   *)
(* and Rollup to a value parsed from the server.  Each leaves the         *)
(* variables of the others alone.                                          *)
(***************************************************************************)
EXTENDS Integers, Sequences, FiniteSets

VARIABLES
    properties,     \* Database.obj_ref.properties: the server column map, in dict order
    _schema,        \* Database._schema: the cached schema class, NoSchema while None
    bound_db,       \* ids of the schema classes on which bind_db(self) was called
    reflections,    \* number of calls of Database._reflect_schema so far
    last,           \* the last Database operation: its name, arguments and outcome
    sent,           \* the raw transport calls the last Database operation issued
    prop,           \* the property value under test: [type, items]
    res,            \* the last property operation: its name, argument and outcome
    val,            \* the single-valued value under test
    out,            \* the last operation on val: its name, argument and outcome
    objs,           \* the living blocks, pages and databases the caller holds, by id
    calls,          \* the raw transport calls the last endpoint method issued
    ep              \* the last endpoint method: its name, arguments and outcome

dbvars == <<properties, _schema, bound_db, reflections, last, sent>>
propvars == <<prop, res>>
valvars == <<val, out>>
epvars == <<objs, calls, ep>>
vars == <<properties, _schema, bound_db, reflections, last, sent, prop, res,
          val, out, objs, calls, ep>>

-----------------------------------------------------------------------------
(* Bounds of the model.                                                    *)

\* longest keyword list handed to create_page
MaxKwargs == 2

\* longest property value (number of options, references or files)
MaxLen == 3

\* most values handed to one call of MultiSelect.append or MultiSelect.remove
MaxArgs == 2

-----------------------------------------------------------------------------
(* Schemas.  A schema class is [id, cols]; a column is [attr, name, type]: *)
(* the attribute name under which the class holds the Column, the column's *)
(* server-side name and its property type.                                 *)

NoSchema == [id |-> "None", cols |-> {}]

\* property types whose page property value class is read-only
ReadOnlyTypes ==
    {"formula", "rollup", "created_time", "created_by", "last_edited_time", "last_edited_by"}

readonly(type) == type \in ReadOnlyTypes

\* make_safe_python_name on the display names of the model: every character that
\* is not valid in an identifier becomes an underscore.
make_safe_python_name(k) ==
    CASE k = "Unit Cost" -> "Unit_Cost"
      [] k = "Grand Total" -> "Grand_Total"
      [] OTHER -> k

\* decapitalize: the first character in lower case.
decapitalize(s) ==
    CASE s = "Name" -> "name"
      [] s = "Unit_Cost" -> "unit_Cost"
      [] s = "Grand_Total" -> "grand_Total"
      [] OTHER -> s

\* The server column maps a database of the model may have (dict order kept).
\* The second one holds two display names that derive the same identifier.
ServerMaps ==
    { << [name |-> "Name", type |-> "title"],
         [name |-> "Unit Cost", type |-> "number"],
         [name |-> "Grand Total", type |-> "formula"] >>,
      << [name |-> "Name", type |-> "title"],
         [name |-> "Unit Cost", type |-> "number"],
         [name |-> "Unit_Cost", type |-> "rich_text"] >> }

\* The attrs dict of _reflect_schema: a dict comprehension over the server
\* columns in order, so a later column with the same key replaces an earlier one.
ReflectAttrs(props) ==
    LET key(i) == decapitalize(make_safe_python_name(props[i].name))
        kept == {i \in DOMAIN props : \A j \in DOMAIN props : j > i => key(j) # key(i)}
    IN  {[attr |-> key(i), name |-> props[i].name, type |-> props[i].type] : i \in kept}

_reflect_schema(props) == [id |-> "Reflected", cols |-> ReflectAttrs(props)]

\* Schema classes a user declares and assigns.
UserSchemas ==
    { [id |-> "Renamed",
       cols |-> {[attr |-> "title", name |-> "Name", type |-> "title"],
                 [attr |-> "unit_Cost", name |-> "Unit Cost", type |-> "number"],
                 [attr |-> "grand_Total", name |-> "Grand Total", type |-> "formula"]}],
      [id |-> "Missing",
       cols |-> {[attr |-> "name", name |-> "Name", type |-> "title"],
                 [attr |-> "unit_Cost", name |-> "Unit Cost", type |-> "number"]}],
      [id |-> "OnlyName",
       cols |-> {[attr |-> "name", name |-> "Name", type |-> "title"]}],
      [id |-> "Changed",
       cols |-> {[attr |-> "name", name |-> "Name", type |-> "title"],
                 [attr |-> "unit_Cost", name |-> "Unit Cost", type |-> "rich_text"],
                 [attr |-> "grand_Total", name |-> "Grand Total", type |-> "formula"],
                 [attr |-> "extra", name |-> "Extra", type |-> "number"]}] }

\* PageSchema.get_cols: the Column attributes of the class.
get_cols(schema) == schema.cols

\* PageSchema.to_dict: column key -> property type, as a set of pairs.
to_dict(schema) == {<<c.name, c.type>> : c \in get_cols(schema)}

Keys(dct) == {kv[1] : kv \in dct}

\* PageSchema.is_consistent_with: same column keys and types, whatever the
\* attribute names.
is_consistent_with(own, other) == to_dict(own) = to_dict(other)

\* dict_diff_str(dct1, dct2): the keys added in dct2, the keys removed from dct1
\* and the keys whose values differ.
dict_diff_str(dct1, dct2) ==
    [added |-> Keys(dct2) \ Keys(dct1),
     removed |-> Keys(dct1) \ Keys(dct2),
     changed |-> {k \in Keys(dct1) \cap Keys(dct2) :
                    \E a \in dct1, b \in dct2 : a[1] = k /\ b[1] = k /\ a[2] # b[2]}]

NoDiff == [added |-> {}, removed |-> {}, changed |-> {}]


-----------------------------------------------------------------------------
(* Values handed to create_page and the write payload.                     *)

\* A keyword value is a native Python value or an already built PropertyValue
\* (which carries the type tag of its own class).
Values ==
    { [kind |-> "native", type |-> "", v |-> 1],
      [kind |-> "PropertyValue", type |-> "number", v |-> 1] }

\* attribute names a caller may pass as keywords
AttrNames == {"name", "unit_Cost", "grand_Total", "title", "bogus"}

RECURSIVE SeqsUpTo(_, _)
SeqsUpTo(S, n) ==
    IF n = 0 THEN {<<>>}
    ELSE LET shorter == SeqsUpTo(S, n - 1)
         IN  shorter \cup {Append(s, x) : s \in {t \in shorter : Len(t) = n - 1}, x \in S}

\* the keyword = value pairs of the model: every keyword with a native value,
\* and the two keywords of the title and number columns with a PropertyValue
KwargItems ==
    {e \in [k : AttrNames, v : Values] :
        e.v.kind = "native" \/ e.k \in {"name", "unit_Cost"}}

\* **kwargs: an ordered dict, so no keyword occurs twice
KwargsUpTo(n) ==
    {kw \in SeqsUpTo(KwargItems, n) :
        \A i, j \in DOMAIN kw : i # j => kw[i].k # kw[j].k}

NoKwargs == <<>>

\* prop_value_cls(value).obj_ref: the raw property value of the column's type
\* built from a native value; a PropertyValue is taken as it is.
obj_ref_of(col, value) ==
    IF value.kind = "PropertyValue"
    THEN [type |-> value.type, v |-> value.v]
    ELSE [type |-> col.type, v |-> value.v]

\* the transport request of PagesEndpoint.create for a Database parent, no
\* title and no children: the parent reference and one entry per property
PagesCreateRequest(properties_dct) ==
    [api |-> "pages.create",
     parent |-> "database_id",
     properties |-> {[name |-> e.name, obj |-> e.obj] : e \in properties_dct},
     cursor |-> 0]

-----------------------------------------------------------------------------
(* The Database facade.                                                    *)

\* a getter that reflects on every read instead of returning the cached class
schema_get_always_reflects(cached, props) ==
    [schema |-> _reflect_schema(props), reflected |-> 1, bound |-> {"Reflected"}]

\* property Database.schema: reflect on the first read, then the cached class
schema_get(cached, props) ==
    IF cached = NoSchema
    THEN [schema |-> _reflect_schema(props), reflected |-> 1, bound |-> {"Reflected"}]
    ELSE [schema |-> cached, reflected |-> 0, bound |-> {}]

\* a setter that validates and binds the schema but does not store it
schema_set_not_stored(cached, props, schema) ==
    LET r1 == schema_get(cached, props)
    IN  IF is_consistent_with(r1.schema, schema)
        THEN [cached |-> r1.schema, exc |-> "none", diff |-> NoDiff,
              bound |-> r1.bound \cup {schema.id}, reflected |-> r1.reflected]
        ELSE [cached |-> r1.schema, exc |-> "SchemaError",
              diff |-> dict_diff_str(to_dict(r1.schema), to_dict(schema)),
              bound |-> r1.bound, reflected |-> r1.reflected]

\* a setter whose consistency test is inverted
schema_set_inverted(cached, props, schema) ==
    LET r1 == schema_get(cached, props)
    IN  IF ~is_consistent_with(r1.schema, schema)
        THEN [cached |-> schema, exc |-> "none", diff |-> NoDiff,
              bound |-> r1.bound \cup {schema.id}, reflected |-> r1.reflected]
        ELSE [cached |-> r1.schema, exc |-> "SchemaError",
              diff |-> dict_diff_str(to_dict(r1.schema), to_dict(schema)),
              bound |-> r1.bound, reflected |-> r1.reflected]

\* Database.schema setter
schema_set(cached, props, schema) ==
    LET r1 == schema_get(cached, props)
    IN  IF is_consistent_with(r1.schema, schema)
        THEN [cached |-> schema, exc |-> "none", diff |-> NoDiff,
              bound |-> r1.bound \cup {schema.id}, reflected |-> r1.reflected]
        ELSE LET r2 == schema_get(r1.schema, props)
                 d == dict_diff_str(to_dict(r2.schema), to_dict(schema))
             IN  [cached |-> r2.schema, exc |-> "SchemaError",
                  diff |-> [added |-> d.added, removed |-> d.removed, changed |-> d.changed],
                  bound |-> r1.bound \cup r2.bound,
                  reflected |-> r1.reflected + r2.reflected]

NoCol == [attr |-> "", name |-> "", type |-> ""]

\* schema_kwargs[kwarg]: the column the schema holds under the attribute name
ColOf(schema, kwarg) == CHOOSE c \in get_cols(schema) : c.attr = kwarg

\* set(kwargs) - set(schema_kwargs): the keywords that are no attribute of the schema
add_kwargs(schema, kwargs) ==
    {kwargs[i].k : i \in DOMAIN kwargs} \ {c.attr : c \in get_cols(schema)}

\* a loop that tests only the first keyword for a read-only column
first_readonly_first_only(schema, kwargs) ==
    IF kwargs # <<>> /\ readonly(ColOf(schema, kwargs[1].k).type)
    THEN ColOf(schema, kwargs[1].k)
    ELSE NoCol

\* the loop over kwargs.items(): the column of the first keyword whose property
\* value class is read-only, NoCol when there is none
first_readonly(schema, kwargs) ==
    LET ro == {i \in DOMAIN kwargs : readonly(ColOf(schema, kwargs[i].k).type)}
    IN  IF ro = {} THEN NoCol
        ELSE ColOf(schema, kwargs[CHOOSE i \in ro : \A j \in ro : i <= j].k)

\* a payload keyed by the attribute names instead of the column names
schema_dct_by_attr(schema, kwargs) ==
    {[name |-> kwargs[i].k, obj |-> obj_ref_of(ColOf(schema, kwargs[i].k), kwargs[i].v)] :
        i \in DOMAIN kwargs}

\* schema_dct: one entry per keyword under the column's name (a dict: a later
\* keyword of the same column name would replace an earlier one)
schema_dct(schema, kwargs) ==
    LET name(i) == ColOf(schema, kwargs[i].k).name
        kept == {i \in DOMAIN kwargs : \A j \in DOMAIN kwargs : j > i => name(j) # name(i)}
    IN  {[name |-> name(i), obj |-> obj_ref_of(ColOf(schema, kwargs[i].k), kwargs[i].v)] :
            i \in kept}

\* a create_page that drops the keywords the schema does not know instead of
\* rejecting the call
create_page_skip_unknown(cached, props, kwargs) ==
    LET r == schema_get(cached, props)
        known(e) == e.k \in {c.attr : c \in get_cols(r.schema)}
        kw == SelectSeq(kwargs, known)
        base == [cached |-> r.schema, bound |-> r.bound, reflected |-> r.reflected,
                 exc |-> "none", bad |-> {}, col |-> NoCol, sent |-> <<>>]
    IN  IF first_readonly(r.schema, kw) # NoCol
        THEN [base EXCEPT !.exc = "ReadOnlyColumnError", !.col = first_readonly(r.schema, kw)]
        ELSE [base EXCEPT !.sent = <<PagesCreateRequest(schema_dct(r.schema, kw))>>]

\* Database.create_page
create_page(cached, props, kwargs) ==
    LET r == schema_get(cached, props)
        base == [cached |-> r.schema, bound |-> r.bound, reflected |-> r.reflected,
                 exc |-> "none", bad |-> {}, col |-> NoCol, sent |-> <<>>]
    IN  IF add_kwargs(r.schema, kwargs) # {}
        THEN [base EXCEPT !.exc = "SchemaError", !.bad = add_kwargs(r.schema, kwargs)]
        ELSE IF first_readonly(r.schema, kwargs) # NoCol
        THEN [base EXCEPT !.exc = "ReadOnlyColumnError",
                          !.col = first_readonly(r.schema, kwargs)]
        ELSE [base EXCEPT !.sent = <<PagesCreateRequest(schema_dct(r.schema, kwargs))>>]

\* the records the server holds for the database, and its page size
ServerRecords == <<"p1", "p2", "p3">>

PageSize == 2

\* QueryBuilder.execute: one databases.query round trip per page of results,
\* each after the first with the cursor the previous one returned
RECURSIVE QueryRequests(_)
QueryRequests(cursor) ==
    LET req == [api |-> "databases.query", parent |-> "database_id",
                properties |-> {}, cursor |-> cursor]
    IN  IF cursor + PageSize >= Len(ServerRecords)
        THEN <<req>>
        ELSE <<req>> \o QueryRequests(cursor + PageSize)

RECURSIVE QueryResults(_)
QueryResults(cursor) ==
    LET upto == IF cursor + PageSize >= Len(ServerRecords)
                THEN Len(ServerRecords) ELSE cursor + PageSize
        page == SubSeq(ServerRecords, cursor + 1, upto)
    IN  IF cursor + PageSize >= Len(ServerRecords)
        THEN page
        ELSE page \o QueryResults(cursor + PageSize)

NoOp ==
    [op |-> "init", arg |-> NoSchema, kwargs |-> NoKwargs, exc |-> "none",
     diff |-> NoDiff, bad |-> {}, col |-> NoCol, ret |-> NoSchema, pages |-> <<>>,
     before |-> NoSchema]

\* reading db.schema
ReadSchema ==
    LET r == schema_get(_schema, properties)
    IN  /\ _schema' = r.schema
        /\ bound_db' = bound_db \cup r.bound
        /\ reflections' = reflections + r.reflected
        /\ last' = [NoOp EXCEPT !.op = "schema_get", !.ret = r.schema, !.before = _schema]
        /\ sent' = <<>>
        /\ UNCHANGED <<properties, prop, res, valvars, epvars>>

\* db.schema = schema, for a declared schema class or the class db.schema returns
SetSchema ==
    \E schema \in UserSchemas \cup {schema_get(_schema, properties).schema} :
        LET r == schema_set(_schema, properties, schema)
        IN  /\ _schema' = r.cached
            /\ bound_db' = bound_db \cup r.bound
            /\ reflections' = reflections + r.reflected
            /\ last' = [NoOp EXCEPT !.op = "schema_set", !.arg = schema, !.exc = r.exc,
                                    !.diff = r.diff, !.before = _schema]
            /\ sent' = <<>>
            /\ UNCHANGED <<properties, prop, res, valvars, epvars>>

\* db.create_page(**kwargs)
CreatePage ==
    \E kwargs \in KwargsUpTo(MaxKwargs) :
        LET r == create_page(_schema, properties, kwargs)
        IN  /\ _schema' = r.cached
            /\ bound_db' = bound_db \cup r.bound
            /\ reflections' = reflections + r.reflected
            /\ last' = [NoOp EXCEPT !.op = "create_page", !.kwargs = kwargs, !.exc = r.exc,
                                    !.bad = r.bad, !.col = r.col, !.before = _schema]
            /\ sent' = r.sent
            /\ UNCHANGED <<properties, prop, res, valvars, epvars>>

\* Page(page_obj): the facade object of one record
Page(page_obj) == [obj_ref |-> page_obj]

\* a view that wraps the records last to first
view_pages_reversed(records) ==
    [i \in DOMAIN records |-> Page(records[Len(records) + 1 - i])]

\* the list comprehension of Database.view: one Page per record of
\* query.execute(), in the order of the iteration
view_pages(records) == [i \in DOMAIN records |-> Page(records[i])]

\* db.view(): the query of the database is executed and every record wrapped
ViewDb ==
    /\ last' = [NoOp EXCEPT !.op = "view", !.pages = view_pages(QueryResults(0)),
                            !.before = _schema]
    /\ sent' = QueryRequests(0)
    /\ UNCHANGED <<properties, _schema, bound_db, reflections, prop, res, valvars, epvars>>

\* db.query(): a QueryBuilder on the database, nothing is sent
QueryDb ==
    /\ last' = [NoOp EXCEPT !.op = "query", !.before = _schema]
    /\ sent' = <<>>
    /\ UNCHANGED <<properties, _schema, bound_db, reflections, prop, res, valvars, epvars>>

\* db.delete(): blocks.delete of the database id
DeleteDb ==
    /\ last' = [NoOp EXCEPT !.op = "delete", !.before = _schema]
    /\ sent' = <<[api |-> "blocks.delete", parent |-> "database_id",
                  properties |-> {}, cursor |-> 0]>>
    /\ UNCHANGED <<properties, _schema, bound_db, reflections, prop, res, valvars, epvars>>

NoProp == [type |-> "none", items |-> <<>>]

NoRes == [op |-> "init", args |-> <<>>, exc |-> "none", msg |-> "", before |-> <<>>]

\* Python values: None, a str, a number or a bool
PyNone == [py |-> "None", s |-> "", n |-> 0, b |-> FALSE]

PyStr(s) == [py |-> "str", s |-> s, n |-> 0, b |-> FALSE]

PyNum(n) == [py |-> "int", s |-> "", n |-> n, b |-> FALSE]

PyBool(b) == [py |-> "bool", s |-> "", n |-> 0, b |-> b]

\* the option of a Status or SelectOne value that holds None
NoOption == [name |-> "<None>", id |-> "<None>", color |-> "<None>"]

\* a property value object: its type tag and the content of its type-named
\* field (an option, a native value or a list of rich text objects)
PropertyValue(type, opt, nat, rtf) == [type |-> type, opt |-> opt, nat |-> nat, rtf |-> rtf]

NoVal == PropertyValue("none", NoOption, PyNone, <<>>)

NoOther == [kind |-> "native", nat |-> PyNone, obj |-> NoVal]

NoOut ==
    [op |-> "init", other |-> NoOther, exc |-> "none", ret |-> PyNone,
     composed |-> FALSE, from |-> PyNone]

\* no living object held
NoObjs == <<>>

\* a reference argument: a living object (kind "object") or its raw id (kind
\* "id"); None is NoRef
NoRef == [kind |-> "None", id |-> ""]

\* the optional arguments of the endpoint methods at their defaults
NoArgs ==
    [parent |-> NoRef, schema |-> "None", title |-> "None", cover |-> "False",
     icon |-> "False", archived |-> "None", text |-> "None", properties |-> "None",
     children |-> "None", caller |-> <<>>]

\* the shape of a transport response to blocks.children.append
NoResp == [has_results |-> FALSE, n |-> 0]

\* the state of a QueryBuilder or EndpointIterator: the endpoint and target it
\* was built for, its parameters, the cursor of the next round trip (0: none),
\* the cursors the responses returned and the records yielded so far
NoIter ==
    [state |-> "idle", api |-> "", id |-> "", params |-> {}, cursor |-> 0,
     returned |-> <<>>, results |-> <<>>]

NoEp ==
    [op |-> "init", ref |-> NoRef, args |-> NoArgs, blocks |-> <<>>, resp |-> NoResp,
     exc |-> "none", ret |-> NoRef, log |-> <<>>, body |-> {}, iter |-> NoIter]

InitDB ==
    /\ properties \in ServerMaps
    /\ _schema = NoSchema
    /\ bound_db = {}
    /\ reflections = 0
    /\ last = NoOp
    /\ sent = <<>>
    /\ prop = NoProp
    /\ res = NoRes
    /\ val = NoVal
    /\ out = NoOut
    /\ objs = NoObjs
    /\ calls = <<>>
    /\ ep = NoEp

NextDB == ReadSchema \/ SetSchema \/ CreatePage \/ ViewDb \/ QueryDb \/ DeleteDb

SpecDB == InitDB /\ [][NextDB]_vars

-----------------------------------------------------------------------------
(* Multi-valued property values: MultiSelect, Relation, Files.             *)

\* list.remove(x): the first item equal to x is taken out; ValueError when
\* there is none
list_remove(items, x) ==
    IF \E i \in DOMAIN items : items[i] = x
    THEN LET i == CHOOSE i \in DOMAIN items :
                      items[i] = x /\ \A j \in DOMAIN items : items[j] = x => i <= j
         IN  [items |-> SubSeq(items, 1, i - 1) \o SubSeq(items, i + 1, Len(items)),
              exc |-> "none", msg |-> ""]
    ELSE [items |-> items, exc |-> "ValueError", msg |-> "list.remove(x): x not in list"]

\* SelectValue objects: options parsed from the server carry an id, options
\* composed from a name carry none
SelectValues == [name : {"red", "blue"}, id : {"", "opt"}]

\* what a caller passes as an option: a name, or None
MsArgs == {[py |-> "str", s |-> "red"], [py |-> "str", s |-> "blue"], [py |-> "None", s |-> ""]}

\* SelectValue[value]
SelectValue_compose(value) == [name |-> value.s, id |-> ""]

\* MultiSelect.__contains__: by option name only
ms_contains(items, name) ==
    \E i \in DOMAIN items : name.py = "str" /\ items[i].name = name.s

\* an append without the membership test
RECURSIVE ms_append_all(_, _)
ms_append_all(items, values) ==
    IF values = <<>>
    THEN [items |-> items, exc |-> "none", msg |-> ""]
    ELSE IF Head(values).py = "None"
    THEN [items |-> items, exc |-> "ValueError", msg |-> "'None' is an invalid value"]
    ELSE ms_append_all(Append(items, SelectValue_compose(Head(values))), Tail(values))

\* MultiSelect.append(*values)
RECURSIVE ms_append(_, _)
ms_append(items, values) ==
    IF values = <<>>
    THEN [items |-> items, exc |-> "none", msg |-> ""]
    ELSE IF Head(values).py = "None"
    THEN [items |-> items, exc |-> "ValueError", msg |-> "'None' is an invalid value"]
    ELSE IF ~ms_contains(items, Head(values))
    THEN ms_append(Append(items, SelectValue_compose(Head(values))), Tail(values))
    ELSE ms_append(items, Tail(values))

\* MultiSelect.remove(*values)
ms_remove(items, values) ==
    LET keep(opt) == ~\E i \in DOMAIN values : values[i].py = "str" /\ values[i].s = opt.name
    IN  [items |-> SelectSeq(items, keep), exc |-> "none", msg |-> ""]

\* a += that leaves the duplicate test to append
ms_iadd_unchecked(items, other) == ms_append(items, <<other>>)

\* MultiSelect.__iadd__
ms_iadd(items, other) ==
    IF ms_contains(items, other)
    THEN [items |-> items, exc |-> "ValueError", msg |-> "Duplicate item"]
    ELSE ms_append(items, <<other>>)

\* a -= that leaves the membership test out and removes whatever matches
ms_isub_unchecked(items, other) == ms_remove(items, <<other>>)

\* MultiSelect.__isub__
ms_isub(items, other) ==
    IF ~ms_contains(items, other)
    THEN [items |-> items, exc |-> "ValueError", msg |-> "No such item"]
    ELSE ms_remove(items, <<other>>)

\* what a caller passes as a page: a Page object or its raw id
RelArgs == [kind : {"Page", "id"}, id : {"p1", "p2"}]

\* the canonical form of an id: a raw id may be spelled with dashes
Canon(id) ==
    CASE id = "p-1" -> "p1"
      [] id = "d-1" -> "d1"
      [] id = "b-1" -> "b1"
      [] OTHER -> id

\* ObjectReference[page]: the reference with the page's id in canonical form
ObjectReference_compose(page) == [id |-> Canon(page.id)]

ObjectReferences == {ObjectReference_compose(page) : page \in RelArgs}

\* Relation.__contains__
rel_contains(items, page) ==
    \E i \in DOMAIN items : items[i] = ObjectReference_compose(page)

\* a += whose membership test is inverted
rel_iadd_inverted(items, page) ==
    IF ~rel_contains(items, page)
    THEN [items |-> items, exc |-> "ValueError", msg |-> "Duplicate item"]
    ELSE [items |-> Append(items, ObjectReference_compose(page)), exc |-> "none", msg |-> ""]

\* Relation.__iadd__
rel_iadd(items, page) ==
    IF rel_contains(items, page)
    THEN [items |-> items, exc |-> "ValueError", msg |-> "Duplicate item"]
    ELSE [items |-> Append(items, ObjectReference_compose(page)), exc |-> "none", msg |-> ""]

\* Relation.__isub__: raises "No such item" when the reference IS in the list,
\* and calls list.remove otherwise
rel_isub(items, page) ==
    IF rel_contains(items, page)
    THEN [items |-> items, exc |-> "ValueError", msg |-> "No such item"]
    ELSE list_remove(items, ObjectReference_compose(page))

\* FileObject values; two of them share a name
FileObjects ==
    { [name |-> "a.pdf", url |-> "u1"], [name |-> "a.pdf", url |-> "u2"],
      [name |-> "b.pdf", url |-> "u1"] }

\* what a caller passes to the in-place operators of Files: a FileObject
FilesArgs == {[py |-> "FileObject", name |-> f.name, url |-> f.url] : f \in FileObjects}

FileOf(obj) == [name |-> obj.name, url |-> obj.url]

\* Files.__contains__: an equal FileObject, or a file of the given name
files_contains(items, other) ==
    \E i \in DOMAIN items :
        \/ other.py = "FileObject" /\ items[i] = FileOf(other)
        \/ other.py = "str" /\ items[i].name = other.name

\* Files.append
files_append(items, obj) == [items |-> Append(items, FileOf(obj)), exc |-> "none", msg |-> ""]

\* Files.remove
files_remove(items, obj) == list_remove(items, FileOf(obj))

\* Files.__iadd__
files_iadd(items, obj) ==
    IF files_contains(items, obj)
    THEN [items |-> items, exc |-> "ValueError", msg |-> "Item exists"]
    ELSE files_append(items, obj)

\* Files.__isub__
files_isub(items, obj) ==
    IF ~files_contains(items, obj)
    THEN [items |-> items, exc |-> "ValueError", msg |-> "No such item"]
    ELSE files_remove(items, obj)

\* the outcome r of operation op with arguments args on the property value
Apply(op, args, r) ==
    /\ Len(r.items) <= MaxLen
    /\ prop' = [prop EXCEPT !.items = r.items]
    /\ res' = [op |-> op, args |-> args, exc |-> r.exc, msg |-> r.msg, before |-> prop.items]
    /\ UNCHANGED <<dbvars, valvars, epvars>>

MsIadd ==
    /\ prop.type = "multi_select"
    /\ \E other \in MsArgs : Apply("iadd", <<other>>, ms_iadd(prop.items, other))

MsIsub ==
    /\ prop.type = "multi_select"
    /\ \E other \in MsArgs : Apply("isub", <<other>>, ms_isub(prop.items, other))

MsAppend ==
    /\ prop.type = "multi_select"
    /\ \E values \in SeqsUpTo(MsArgs, MaxArgs) :
          Apply("append", values, ms_append(prop.items, values))

MsRemove ==
    /\ prop.type = "multi_select"
    /\ \E values \in SeqsUpTo(MsArgs, MaxArgs) :
          Apply("remove", values, ms_remove(prop.items, values))

RelIadd ==
    /\ prop.type = "relation"
    /\ \E page \in RelArgs : Apply("iadd", <<page>>, rel_iadd(prop.items, page))

RelIsub ==
    /\ prop.type = "relation"
    /\ \E page \in RelArgs : Apply("isub", <<page>>, rel_isub(prop.items, page))

FilesIadd ==
    /\ prop.type = "files"
    /\ \E obj \in FilesArgs : Apply("iadd", <<obj>>, files_iadd(prop.items, obj))

FilesIsub ==
    /\ prop.type = "files"
    /\ \E obj \in FilesArgs : Apply("isub", <<obj>>, files_isub(prop.items, obj))

FilesAppend ==
    /\ prop.type = "files"
    /\ \E obj \in FilesArgs : Apply("append", <<obj>>, files_append(prop.items, obj))

FilesRemove ==
    /\ prop.type = "files"
    /\ \E obj \in FilesArgs : Apply("remove", <<obj>>, files_remove(prop.items, obj))

\* a property value as parsed from a page or composed: any list of its items
InitProp ==
    /\ prop \in [type : {"multi_select"}, items : SeqsUpTo(SelectValues, MaxLen)]
                \cup [type : {"relation"}, items : SeqsUpTo(ObjectReferences, MaxLen)]
                \cup [type : {"files"}, items : SeqsUpTo(FileObjects, MaxLen)]
    /\ res = NoRes
    /\ properties = <<>>
    /\ _schema = NoSchema
    /\ bound_db = {}
    /\ reflections = 0
    /\ last = NoOp
    /\ sent = <<>>
    /\ val = NoVal
    /\ out = NoOut
    /\ objs = NoObjs
    /\ calls = <<>>
    /\ ep = NoEp

NextProp ==
    \/ MsIadd \/ MsIsub \/ MsAppend \/ MsRemove
    \/ RelIadd \/ RelIsub
    \/ FilesIadd \/ FilesIsub \/ FilesAppend \/ FilesRemove

SpecProp == InitProp /\ [][NextProp]_vars

\* a MultiSelect built empty and changed through its own methods only
InitMs ==
    /\ prop = [type |-> "multi_select", items |-> <<>>]
    /\ res = NoRes
    /\ properties = <<>>
    /\ _schema = NoSchema
    /\ bound_db = {}
    /\ reflections = 0
    /\ last = NoOp
    /\ sent = <<>>
    /\ val = NoVal
    /\ out = NoOut
    /\ objs = NoObjs
    /\ calls = <<>>
    /\ ep = NoEp

NextMs == MsIadd \/ MsIsub \/ MsAppend \/ MsRemove

SpecMs == InitMs /\ [][NextMs]_vars

-----------------------------------------------------------------------------
(* Single-valued property values: composing, reading and comparing.        *)

\* the options of a status or select column, as the server sends them (with an
\* id and a color) or as composed from a name (id and color None, written "")
Options == [name : {"Done", "Todo"}, id : {"", "o1"}, color : {"", "red"}]

\* the result of a method: the value returned, or the exception raised
Ret(v) == [exc |-> "none", ret |-> v]

Raise(e) == [exc |-> e, ret |-> PyNone]

\* Status.__eq__(self, other) for other a Status, a str or None
Status_eq(self, other) ==
    IF other.kind = "native" /\ other.nat.py = "None"
    THEN Ret(PyBool(self.opt = NoOption))
    ELSE IF other.kind = "object"
    THEN IF self.opt = NoOption \/ other.obj.opt = NoOption
         THEN Raise("AttributeError")
         ELSE Ret(PyBool(self.opt.name = other.obj.opt.name))
    ELSE IF self.opt = NoOption
         THEN Raise("AttributeError")
         ELSE Ret(PyBool(self.opt.name = other.nat.s))

\* SelectOne.__eq__(self, other) for other a SelectOne, a str or None:
\* `other == self.select.name`, which for a SelectOne on the left is
\* other.__eq__ of the name
SelectOne_eq(self, other) ==
    IF other.kind = "native" /\ other.nat.py = "None"
    THEN Ret(PyBool(self.opt = NoOption))
    ELSE IF self.opt = NoOption
    THEN Raise("AttributeError")
    ELSE IF other.kind = "object"
    THEN IF other.obj.opt = NoOption
         THEN Raise("AttributeError")
         ELSE Ret(PyBool(self.opt.name = other.obj.opt.name))
    ELSE Ret(PyBool(other.nat.s = self.opt.name))

\* the variants with a native scalar correspondence
NativeVariants ==
    {"title", "rich_text", "number", "checkbox", "status", "select",
     "url", "email", "phone_number"}

\* the native values a caller composes a variant from
Natives(type) ==
    CASE type \in {"title", "rich_text"} -> {PyStr("Widget"), PyStr("Gadget")}
      [] type = "number" -> {PyNum(0), PyNum(3), PyNone}
      [] type = "checkbox" -> {PyBool(TRUE), PyBool(FALSE), PyNone}
      [] type = "status" -> {PyStr("Done"), PyStr("Todo"), PyNone}
      [] type = "select" -> {PyStr("Done"), PyStr("Todo")}
      [] type \in {"url", "email", "phone_number"} -> {PyStr("Widget"), PyNone}

\* text.rich_text(*text): one text object per text element
rich_text(text) == [i \in DOMAIN text |-> [type |-> "text", plain_text |-> text[i].s]]

\* text.plain_text(*rtf): the plain texts of the objects, joined
RECURSIVE plain_text(_)
plain_text(rtf) ==
    IF rtf = <<>> THEN "" ELSE Head(rtf).plain_text \o plain_text(Tail(rtf))

\* Title.__compose__ and RichText.__compose__
Title_compose(type, text) ==
    [exc |-> "none", obj |-> PropertyValue(type, NoOption, PyNone, rich_text(<<text>>))]

\* NativeTypeMixin.__compose__: cls(**{cls.type: value})
NativeTypeMixin_compose(type, value) ==
    [exc |-> "none", obj |-> PropertyValue(type, NoOption, value, <<>>)]

\* Status.__compose__(name), no color given
Status_compose(name) ==
    IF name.py = "None"
    THEN [exc |-> "ValueError", obj |-> NoVal]
    ELSE [exc |-> "none",
          obj |-> PropertyValue("status", [name |-> name.s, id |-> "", color |-> ""],
                                PyNone, <<>>)]

\* SelectOne.__compose__(value), no color given: SelectValue[value, None]
SelectOne_compose(value) ==
    [exc |-> "none",
     obj |-> PropertyValue("select", [name |-> value.s, id |-> "", color |-> ""],
                           PyNone, <<>>)]

\* T[native]: the composer of the variant
compose(type, native) ==
    CASE type \in {"title", "rich_text"} -> Title_compose(type, native)
      [] type = "status" -> Status_compose(native)
      [] type = "select" -> SelectOne_compose(native)
      [] OTHER -> NativeTypeMixin_compose(type, native)

\* Title.Value and RichText.Value
Title_Value(self) == Ret(PyStr(plain_text(self.rtf)))

\* NativeTypeMixin.Value: getattr(self, cls.type); Number.Value reads self.number
NativeTypeMixin_Value(self) == Ret(self.nat)

\* Status.Value: self.status.name
Status_Value(self) ==
    IF self.opt = NoOption THEN Raise("AttributeError") ELSE Ret(PyStr(self.opt.name))

\* a Value that reads the id of the option instead of its name
SelectOne_Value_id(self) ==
    IF self.opt = NoOption THEN Ret(PyNone) ELSE Ret(PyStr(self.opt.id))

\* SelectOne.Value: str(self.select), the name of the option
SelectOne_Value(self) ==
    IF self.opt = NoOption THEN Ret(PyNone) ELSE Ret(PyStr(self.opt.name))

\* property Value of the variant
Value(self) ==
    CASE self.type \in {"title", "rich_text"} -> Title_Value(self)
      [] self.type = "status" -> Status_Value(self)
      [] self.type = "select" -> SelectOne_Value(self)
      [] OTHER -> NativeTypeMixin_Value(self)

\* what a value is compared with: None, a name, or a value of its own class
Others(type) ==
    {[kind |-> "native", nat |-> n, obj |-> NoVal] :
        n \in {PyNone, PyStr("Done"), PyStr("Todo")}}
    \cup {[kind |-> "object", nat |-> PyNone, obj |-> PropertyValue(type, o, PyNone, <<>>)] :
            o \in Options \cup {NoOption}}

\* status == other
StatusEq ==
    /\ val.type = "status"
    /\ \E other \in Others("status") :
          LET r == Status_eq(val, other)
          IN  out' = [out EXCEPT !.op = "eq", !.other = other, !.exc = r.exc, !.ret = r.ret]
    /\ UNCHANGED <<val, dbvars, propvars, epvars>>

\* select == other
SelectEq ==
    /\ val.type = "select"
    /\ \E other \in Others("select") :
          LET r == SelectOne_eq(val, other)
          IN  out' = [out EXCEPT !.op = "eq", !.other = other, !.exc = r.exc, !.ret = r.ret]
    /\ UNCHANGED <<val, dbvars, propvars, epvars>>

\* val = T[native]; a composer that raises leaves val as it was
Compose ==
    /\ \E type \in NativeVariants : \E native \in Natives(type) :
          LET r == compose(type, native)
          IN  IF r.exc = "none"
              THEN /\ val' = r.obj
                   /\ out' = [NoOut EXCEPT !.op = "compose", !.composed = TRUE,
                                           !.from = native]
              ELSE /\ val' = val
                   /\ out' = [out EXCEPT !.op = "compose", !.other = NoOther,
                                         !.exc = r.exc, !.ret = PyNone]
    /\ UNCHANGED <<dbvars, propvars, epvars>>

\* val.Value
ReadValue ==
    /\ LET r == Value(val)
       IN  out' = [out EXCEPT !.op = "Value", !.other = NoOther, !.exc = r.exc, !.ret = r.ret]
    /\ UNCHANGED <<val, dbvars, propvars, epvars>>

\* a Status or SelectOne value of a page, as parsed from the server: with an
\* option or with None
InitValue ==
    /\ val \in {PropertyValue(type, o, PyNone, <<>>) :
                  type \in {"status", "select"}, o \in Options \cup {NoOption}}
    /\ out = NoOut
    /\ properties = <<>>
    /\ _schema = NoSchema
    /\ bound_db = {}
    /\ reflections = 0
    /\ last = NoOp
    /\ sent = <<>>
    /\ prop = NoProp
    /\ res = NoRes
    /\ objs = NoObjs
    /\ calls = <<>>
    /\ ep = NoEp

NextValue == StatusEq \/ SelectEq \/ Compose \/ ReadValue

SpecValue == InitValue /\ [][NextValue]_vars

-----------------------------------------------------------------------------
(* The endpoint wrappers over the raw transport.                           *)

\* most blocks handed to one call of blocks.children.append
MaxBlocks == 2

\* the living objects of the model: two blocks, a page and a database
ObjIds == {"b1", "b2", "p1", "d1"}

\* a living object as the caller built or fetched it, before any refresh
InitObjs == [id \in ObjIds |-> [src |-> "local", archived |-> "None"]]

\* reference arguments: the living object, or its raw id in either spelling
PageArgs == {[kind |-> "object", id |-> "p1"], [kind |-> "id", id |-> "p1"],
             [kind |-> "id", id |-> "p-1"]}

DatabaseArgs == {[kind |-> "object", id |-> "d1"], [kind |-> "id", id |-> "d1"],
                 [kind |-> "id", id |-> "d-1"]}

BlockArgs == {[kind |-> "object", id |-> "b1"], [kind |-> "object", id |-> "b2"],
              [kind |-> "id", id |-> "b1"], [kind |-> "id", id |-> "b-1"]}

\* PageRef[page].page_id and DatabaseRef[dbref].database_id
PageRef_compose(page) == [page_id |-> Canon(page.id)]

DatabaseRef_compose(dbref) == [database_id |-> Canon(dbref.id)]

\* one raw transport call: the SDK endpoint, the id it is called on, the
\* keyword arguments of the request and the start cursor (0: none)
Call(api, id, body) == [api |-> api, id |-> id, body |-> body, cursor |-> 0]

\* one field of a request body
Field(name, value) == [field |-> name, value |-> value]

Fields(body) == {f.field : f \in body}

\* the object data a transport response carries: the state of the object on
\* the server, with the archived flag when the request set it
Response(archived) == [src |-> "server", archived |-> archived]

\* NotionObject.refresh(**data): the living object takes the data
refresh(objects, id, data) == [objects EXCEPT ![id] = data]

\* X.parse_obj(data): a new object for the id
parse_obj(id) == [kind |-> "parsed", id |-> id]

\* the outcome of an endpoint method
Outcome(objects, cs, exc, ret, log, body) ==
    [objs |-> objects, calls |-> cs, exc |-> exc, ret |-> ret, log |-> log,
     body |-> body, iter |-> NoIter]

\* the loop of ChildrenEndpoint.append over range(len(blocks)): block.refresh
\* of each block in turn; None has no refresh
RECURSIVE refresh_blocks(_, _)
refresh_blocks(objects, blocks) ==
    IF blocks = <<>>
    THEN [objs |-> objects, exc |-> "none"]
    ELSE IF Head(blocks) = NoRef
    THEN [objs |-> objects, exc |-> "AttributeError"]
    ELSE refresh_blocks(refresh(objects, Head(blocks).id, Response("None")), Tail(blocks))

\* the request of ChildrenEndpoint.append: the blocks that are not None
children_of(blocks) ==
    LET given(b) == b # NoRef
        kept == SelectSeq(blocks, given)
    IN  [i \in DOMAIN kept |-> kept[i].id]

\* an append that raises on a response of the wrong size
ChildrenEndpoint_append_strict(objects, parent, blocks, resp) ==
    LET parent_id == ObjectReference_compose(parent).id
        body == {Field("children", children_of(blocks))}
        cs == <<Call("blocks.children.append", parent_id, body)>>
    IN  IF resp.has_results /\ Len(blocks) = resp.n
        THEN LET r == refresh_blocks(objects, blocks)
             IN  Outcome(r.objs, cs, r.exc, IF r.exc = "none" THEN parent ELSE NoRef,
                         <<>>, body)
        ELSE Outcome(objects, cs, "ValueError", NoRef, <<>>, body)

\* BlocksEndpoint.ChildrenEndpoint.append
ChildrenEndpoint_append(objects, parent, blocks, resp) ==
    LET parent_id == ObjectReference_compose(parent).id
        body == {Field("children", children_of(blocks))}
        cs == <<Call("blocks.children.append", parent_id, body)>>
    IN  IF resp.has_results
        THEN IF Len(blocks) = resp.n
             THEN LET r == refresh_blocks(objects, blocks)
                  IN  Outcome(r.objs, cs, r.exc, IF r.exc = "none" THEN parent ELSE NoRef,
                              <<>>, body)
             ELSE Outcome(objects, cs, "none", parent,
                          <<"Unable to refresh results; size mismatch">>, body)
        ELSE Outcome(objects, cs, "none", parent,
                     <<"Unable to refresh results; not provided">>, body)

\* BlocksEndpoint.ChildrenEndpoint.list: an EndpointIterator on the parent
ChildrenEndpoint_list(objects, parent) ==
    [Outcome(objects, <<>>, "none", NoRef, <<>>, {}) EXCEPT
        !.iter = [NoIter EXCEPT !.state = "built", !.api = "blocks.children.list",
                                !.id = ObjectReference_compose(parent).id]]

\* BlocksEndpoint.delete
BlocksEndpoint_delete(objects, block) ==
    LET block_id == ObjectReference_compose(block).id
    IN  Outcome(objects, <<Call("blocks.delete", block_id, {})>>, "none",
                parse_obj(block_id), <<>>, {})

\* BlocksEndpoint.restore
BlocksEndpoint_restore(objects, block) ==
    LET block_id == ObjectReference_compose(block).id
        body == {Field("archived", <<"False">>)}
    IN  Outcome(objects, <<Call("blocks.update", block_id, body)>>, "none",
                parse_obj(block_id), <<>>, body)

\* BlocksEndpoint.retrieve
BlocksEndpoint_retrieve(objects, block) ==
    LET block_id == ObjectReference_compose(block).id
    IN  Outcome(objects, <<Call("blocks.retrieve", block_id, {})>>, "none",
                parse_obj(block_id), <<>>, {})

\* BlocksEndpoint.update(block) for a living block: block.id.hex, **block.dict()
BlocksEndpoint_update(objects, block) ==
    LET body == {Field("block", <<block.id>>)}
    IN  Outcome(refresh(objects, block.id, Response("None")),
                <<Call("blocks.update", block.id, body)>>, "none", block, <<>>, body)

\* DatabasesEndpoint._build_request
_build_request(parent, schema, title) ==
    (IF parent # NoRef THEN {Field("parent", <<"page_id", parent.page_id>>)} ELSE {})
    \cup (IF title # "None" THEN {Field("title", <<title>>)} ELSE {})
    \cup (IF schema # "None" THEN {Field("properties", <<schema>>)} ELSE {})

\* DatabasesEndpoint.create
DatabasesEndpoint_create(objects, parent, schema, title) ==
    LET parent_ref == PageRef_compose(parent)
        request == _build_request(parent_ref, schema, title)
    IN  Outcome(objects, <<Call("databases.create", "", request)>>, "none",
                parse_obj("d1"), <<>>, request)

\* DatabasesEndpoint.retrieve
DatabasesEndpoint_retrieve(objects, dbref) ==
    LET dbid == DatabaseRef_compose(dbref).database_id
    IN  Outcome(objects, <<Call("databases.retrieve", dbid, {})>>, "none",
                parse_obj(dbid), <<>>, {})

\* DatabasesEndpoint.update: nothing is sent for an empty request; a raw id
\* has no refresh
DatabasesEndpoint_update(objects, dbref, title, schema) ==
    LET dbid == DatabaseRef_compose(dbref).database_id
        request == _build_request(NoRef, schema, title)
        cs == <<Call("databases.update", dbid, request)>>
    IN  IF request # {}
        THEN IF dbref.kind = "object"
             THEN Outcome(refresh(objects, dbid, Response("None")),
                          cs, "none", dbref, <<>>, request)
             ELSE Outcome(objects, cs, "AttributeError", NoRef, <<>>, request)
        ELSE Outcome(objects, <<>>, "none", dbref, <<>>, request)

\* DatabasesEndpoint.delete: blocks.delete of the database id
DatabasesEndpoint_delete(objects, dbref) ==
    BlocksEndpoint_delete(objects,
        [kind |-> "id", id |-> DatabaseRef_compose(dbref).database_id])

\* DatabasesEndpoint.restore: blocks.restore of the database id
DatabasesEndpoint_restore(objects, dbref) ==
    BlocksEndpoint_restore(objects,
        [kind |-> "id", id |-> DatabaseRef_compose(dbref).database_id])

\* a query that sends its first request when it is built
DatabasesEndpoint_query_eager(objects, target) ==
    LET dbid == DatabaseRef_compose(target).database_id
    IN  [Outcome(objects, <<Call("databases.query", dbid, {})>>, "none", NoRef, <<>>, {})
            EXCEPT !.iter = [NoIter EXCEPT !.state = "built", !.api = "databases.query",
                                           !.id = dbid]]

\* DatabasesEndpoint.query: a QueryBuilder on the database, nothing is sent
DatabasesEndpoint_query(objects, target) ==
    LET dbid == DatabaseRef_compose(target).database_id
    IN  [Outcome(objects, <<>>, "none", NoRef, <<>>, {})
            EXCEPT !.iter = [NoIter EXCEPT !.state = "built", !.api = "databases.query",
                                           !.id = dbid]]

\* the mapping `properties` of PagesEndpoint.create after its two tests: a
\* new mapping when None was passed, else the mapping of the caller itself;
\* the title is stored in it under "title"
PagesEndpoint_create_properties(title, page_props) ==
    (IF page_props = "None" THEN <<>> ELSE <<page_props>>)
    \o (IF title = "None" THEN <<>> ELSE <<"title", title>>)

\* PagesEndpoint.create: the parent must be a living Page or Database, or a
\* ParentRef
PagesEndpoint_create(objects, parent, title, page_props, children) ==
    IF parent = NoRef
    THEN Outcome(objects, <<>>, "ValueError", NoRef, <<>>, {})
    ELSE IF parent.kind \notin {"object", "ref"}
    THEN Outcome(objects, <<>>, "ValueError", NoRef, <<>>, {})
    ELSE LET props == PagesEndpoint_create_properties(title, page_props)
             request ==
                 {Field("parent", <<parent.id>>), Field("properties", props)}
                 \cup (IF children # "None" THEN {Field("children", <<children>>)} ELSE {})
         IN  Outcome(objects, <<Call("pages.create", "", request)>>, "none",
                     parse_obj("p2"), <<>>, request)

\* PagesEndpoint.retrieve
PagesEndpoint_retrieve(objects, page) ==
    LET page_id == PageRef_compose(page).page_id
    IN  Outcome(objects, <<Call("pages.retrieve", page_id, {})>>, "none",
                parse_obj(page_id), <<>>, {})

\* an update that sends all the properties of the page whatever was passed
PagesEndpoint_update_all(objects, page, page_props) ==
    LET props == {Field("properties", <<"page.properties">>)}
    IN  Outcome(refresh(objects, page.id, Response("None")),
                <<Call("pages.update", page.id, props)>>, "none", page, <<>>, props)

\* PagesEndpoint.update(page, **page_props) for a living page
PagesEndpoint_update(objects, page, page_props) ==
    LET props == {Field("properties",
                        IF page_props = "None" THEN <<"page.properties">> ELSE <<page_props>>)}
    IN  Outcome(refresh(objects, page.id, Response("None")),
                <<Call("pages.update", page.id, props)>>, "none", page, <<>>, props)

\* a set that leaves the attribute out when it is None
PagesEndpoint_set_skip_none(objects, page, cover, icon, archived) ==
    LET page_id == PageRef_compose(page).page_id
        props ==
            (IF cover \notin {"None", "False"} THEN {Field("cover", <<cover>>)} ELSE {})
            \cup (IF icon \notin {"None", "False"} THEN {Field("icon", <<icon>>)} ELSE {})
            \cup (IF archived \in {"True", "False"}
                  THEN {Field("archived", <<archived>>)} ELSE {})
        cs == <<Call("pages.update", page_id, props)>>
    IN  IF page.kind = "object"
        THEN Outcome(refresh(objects, page_id,
                             Response(archived)),
                     cs, "none", page, <<>>, props)
        ELSE Outcome(objects, cs, "AttributeError", NoRef, <<>>, props)

\* PagesEndpoint.set: the attributes that are not at their sentinel are sent,
\* None as an empty object; page.refresh at the end, which a raw id has not
PagesEndpoint_set(objects, page, cover, icon, archived) ==
    LET page_id == PageRef_compose(page).page_id
        props ==
            (IF cover = "None" THEN {Field("cover", <<>>)}
             ELSE IF cover # "False" THEN {Field("cover", <<cover>>)} ELSE {})
            \cup (IF icon = "None" THEN {Field("icon", <<>>)}
                  ELSE IF icon # "False" THEN {Field("icon", <<icon>>)} ELSE {})
            \cup (IF archived \in {"True", "False"}
                  THEN {Field("archived", <<archived>>)} ELSE {})
        cs == <<Call("pages.update", page_id, props)>>
    IN  IF page.kind = "object"
        THEN Outcome(refresh(objects, page_id,
                             Response(archived)),
                     cs, "none", page, <<>>, props)
        ELSE Outcome(objects, cs, "AttributeError", NoRef, <<>>, props)

\* a delete that removes the cover as well
PagesEndpoint_delete_clear_cover(objects, page) ==
    PagesEndpoint_set(objects, page, "None", "False", "True")

\* PagesEndpoint.delete
PagesEndpoint_delete(objects, page) == PagesEndpoint_set(objects, page, "False", "False", "True")

\* PagesEndpoint.restore
PagesEndpoint_restore(objects, page) ==
    PagesEndpoint_set(objects, page, "False", "False", "False")

\* SearchEndpoint.__call__: a QueryBuilder on the search endpoint
SearchEndpoint_call(objects, text) ==
    LET params == IF text # "None" THEN {Field("query", <<text>>)} ELSE {}
    IN  [Outcome(objects, <<>>, "none", NoRef, <<>>, params)
            EXCEPT !.iter = [NoIter EXCEPT !.state = "built", !.api = "search",
                                           !.params = params]]

\* what the server holds for a listing: the records of the database, the
\* children of the block, the objects a search finds (none for a search text)
Listing(api, params) ==
    CASE api = "databases.query" -> ServerRecords
      [] api = "blocks.children.list" -> <<"b1", "b2">>
      [] api = "search" /\ params = {} -> <<"p1", "p2", "p3", "d1", "b1">>
      [] OTHER -> <<>>

\* the transport response to a listing request with the given start cursor:
\* one page of results, and the cursor of the next page if there is one
ListResponse(api, params, cursor) ==
    LET records == Listing(api, params)
        more == cursor + PageSize < Len(records)
        upto == IF more THEN cursor + PageSize ELSE Len(records)
    IN  [results |-> SubSeq(records, cursor + 1, upto),
         has_more |-> more,
         next_cursor |-> IF more THEN cursor + PageSize ELSE 0]

\* EndpointIterator: whether another round trip follows the response
EndpointIterator_has_more(response) == response.has_more /\ response.next_cursor # 0

\* the endpoint methods block: none runs while a listing is being fetched
Finish(op, ref, args, blocks, resp, r) ==
    /\ ep.iter.state # "running"
    /\ objs' = r.objs
    /\ calls' = r.calls
    /\ ep' = [op |-> op, ref |-> ref, args |-> args, blocks |-> blocks, resp |-> resp,
              exc |-> r.exc, ret |-> r.ret, log |-> r.log, body |-> r.body, iter |-> r.iter]
    /\ UNCHANGED <<dbvars, propvars, valvars>>

\* the blocks handed to append: living blocks, or None
BlockLists == SeqsUpTo({[kind |-> "object", id |-> "b1"], [kind |-> "object", id |-> "b2"],
                        NoRef}, MaxBlocks)

\* the shapes of the response to append: no results, or a list of n results
AppendResponses ==
    {NoResp} \cup {[has_results |-> TRUE, n |-> n] : n \in 0..MaxBlocks}

\* the parents blocks are appended to: a living page, or a block by its raw id
AppendParents == {[kind |-> "object", id |-> "p1"], [kind |-> "id", id |-> "b-1"]}

ChildrenAppend ==
    \E parent \in AppendParents, blocks \in BlockLists, resp \in AppendResponses :
        Finish("blocks.children.append", parent, NoArgs, blocks, resp,
               ChildrenEndpoint_append(objs, parent, blocks, resp))

ChildrenList ==
    \E parent \in AppendParents :
        Finish("blocks.children.list", parent, NoArgs, <<>>, NoResp,
               ChildrenEndpoint_list(objs, parent))

BlocksDelete ==
    \E block \in BlockArgs :
        Finish("blocks.delete", block, NoArgs, <<>>, NoResp, BlocksEndpoint_delete(objs, block))

BlocksRestore ==
    \E block \in BlockArgs :
        Finish("blocks.restore", block, NoArgs, <<>>, NoResp,
               BlocksEndpoint_restore(objs, block))

BlocksRetrieve ==
    \E block \in BlockArgs :
        Finish("blocks.retrieve", block, NoArgs, <<>>, NoResp,
               BlocksEndpoint_retrieve(objs, block))

BlocksUpdate ==
    \E block \in {b \in BlockArgs : b.kind = "object"} :
        Finish("blocks.update", block, NoArgs, <<>>, NoResp, BlocksEndpoint_update(objs, block))

DatabasesCreate ==
    \E parent \in PageArgs, schema \in {"None", "schema"}, title \in {"None", "T"} :
        Finish("databases.create", parent,
               [NoArgs EXCEPT !.parent = parent, !.schema = schema, !.title = title],
               <<>>, NoResp, DatabasesEndpoint_create(objs, parent, schema, title))

DatabasesRetrieve ==
    \E dbref \in DatabaseArgs :
        Finish("databases.retrieve", dbref, NoArgs, <<>>, NoResp,
               DatabasesEndpoint_retrieve(objs, dbref))

DatabasesUpdate ==
    \E dbref \in DatabaseArgs, schema \in {"None", "schema"}, title \in {"None", "T"} :
        Finish("databases.update", dbref, [NoArgs EXCEPT !.schema = schema, !.title = title],
               <<>>, NoResp, DatabasesEndpoint_update(objs, dbref, title, schema))

DatabasesDelete ==
    \E dbref \in DatabaseArgs :
        Finish("databases.delete", dbref, NoArgs, <<>>, NoResp,
               DatabasesEndpoint_delete(objs, dbref))

DatabasesRestore ==
    \E dbref \in DatabaseArgs :
        Finish("databases.restore", dbref, NoArgs, <<>>, NoResp,
               DatabasesEndpoint_restore(objs, dbref))

DatabasesQuery ==
    \E target \in DatabaseArgs :
        Finish("databases.query", target, NoArgs, <<>>, NoResp,
               DatabasesEndpoint_query(objs, target))

\* the parents of a new page: None, a living page or database, a ParentRef,
\* or a raw id
CreateParents ==
    {NoRef, [kind |-> "object", id |-> "p1"], [kind |-> "object", id |-> "d1"],
     [kind |-> "ref", id |-> "p1"], [kind |-> "id", id |-> "p1"]}

\* create(parent, title, properties, children); caller is the mapping the
\* caller passed as properties, as it is after the call
PagesCreate ==
    \E parent \in CreateParents, title \in {"None", "T"},
       page_props \in {"None", "props"}, children \in {"None", "blocks"} :
        LET r == PagesEndpoint_create(objs, parent, title, page_props, children)
        IN  Finish("pages.create", parent,
                   [NoArgs EXCEPT !.parent = parent, !.title = title,
                                  !.properties = page_props, !.children = children,
                                  !.caller =
                                      IF page_props = "None" THEN <<>>
                                      ELSE IF r.exc # "none" THEN <<page_props>>
                                      ELSE PagesEndpoint_create_properties(title, page_props)],
                   <<>>, NoResp, r)

PagesRetrieve ==
    \E page \in PageArgs :
        Finish("pages.retrieve", page, NoArgs, <<>>, NoResp, PagesEndpoint_retrieve(objs, page))

PagesUpdate ==
    \E page \in {a \in PageArgs : a.kind = "object"}, page_props \in {"None", "props"} :
        Finish("pages.update", page, [NoArgs EXCEPT !.properties = page_props], <<>>, NoResp,
               PagesEndpoint_update(objs, page, page_props))

PagesSet ==
    \E page \in PageArgs, cover \in {"False", "None", "file"}, icon \in {"False", "None", "emoji"},
       archived \in {"None", "True", "False"} :
        Finish("pages.set", page,
               [NoArgs EXCEPT !.cover = cover, !.icon = icon, !.archived = archived],
               <<>>, NoResp, PagesEndpoint_set(objs, page, cover, icon, archived))

PagesDelete ==
    \E page \in PageArgs :
        Finish("pages.delete", page, [NoArgs EXCEPT !.archived = "True"], <<>>, NoResp,
               PagesEndpoint_delete(objs, page))

PagesRestore ==
    \E page \in PageArgs :
        Finish("pages.restore", page, [NoArgs EXCEPT !.archived = "False"], <<>>, NoResp,
               PagesEndpoint_restore(objs, page))

Search ==
    \E text \in {"None", "text"} :
        Finish("search", NoRef, [NoArgs EXCEPT !.text = text], <<>>, NoResp,
               SearchEndpoint_call(objs, text))

\* execute() of a QueryBuilder, or the first next() of the iterator of a
\* list: the listing starts at its first page; a QueryBuilder may be executed
\* again when the listing has ended
Execute ==
    /\ \/ ep.iter.state = "built"
       \/ ep.iter.state = "done" /\ ep.iter.api # "blocks.children.list"
    /\ ep' = [ep EXCEPT !.op = "execute",
                        !.iter = [@ EXCEPT !.state = "running", !.cursor = 0,
                                           !.returned = <<>>, !.results = <<>>]]
    /\ calls' = <<>>
    /\ UNCHANGED <<objs, dbvars, propvars, valvars>>

\* one round trip of the listing: the request carries the cursor the last
\* response returned, the results are yielded, and the listing ends when the
\* server reports no continuation
FetchPage ==
    /\ ep.iter.state = "running"
    /\ LET it == ep.iter
           request == [Call(it.api, it.id, it.params) EXCEPT !.cursor = it.cursor]
           response == ListResponse(it.api, it.params, it.cursor)
       IN  /\ calls' = Append(calls, request)
           /\ ep' = [ep EXCEPT
                        !.iter = [it EXCEPT
                            !.state = IF EndpointIterator_has_more(response)
                                      THEN "running" ELSE "done",
                            !.cursor = response.next_cursor,
                            !.returned = Append(it.returned, response.next_cursor),
                            !.results = it.results \o response.results]]
    /\ UNCHANGED <<objs, dbvars, propvars, valvars>>

InitEndpoint ==
    /\ objs = InitObjs
    /\ calls = <<>>
    /\ ep = NoEp
    /\ properties = <<>>
    /\ _schema = NoSchema
    /\ bound_db = {}
    /\ reflections = 0
    /\ last = NoOp
    /\ sent = <<>>
    /\ prop = NoProp
    /\ res = NoRes
    /\ val = NoVal
    /\ out = NoOut

\* the blocks endpoint: appending children and the calls on single blocks
NextBlocks ==
    \/ ChildrenAppend
    \/ BlocksDelete \/ BlocksRestore \/ BlocksRetrieve \/ BlocksUpdate

SpecBlocks == InitEndpoint /\ [][NextBlocks]_vars

\* the databases, pages and search endpoints, and the listings
NextEndpoint ==
    \/ DatabasesCreate \/ DatabasesRetrieve \/ DatabasesUpdate
    \/ DatabasesDelete \/ DatabasesRestore \/ DatabasesQuery
    \/ PagesCreate \/ PagesRetrieve \/ PagesUpdate \/ PagesSet \/ PagesDelete \/ PagesRestore
    \/ Search \/ ChildrenList
    \/ Execute \/ FetchPage

SpecEndpoint == InitEndpoint /\ [][NextEndpoint]_vars

\* the listing is fetched to its end: a started round-trip loop blocks the
\* caller until the transport has answered
SpecEndpointFair == SpecEndpoint /\ WF_vars(FetchPage)

-----------------------------------------------------------------------------
(* Properties of the Database facade, checked under SpecDB.                *)

\* the class db.schema stood for when the last operation began
SchemaBefore == IF last.before = NoSchema THEN _reflect_schema(properties) ELSE last.before

PassedKwargs == {last.kwargs[i].k : i \in DOMAIN last.kwargs}

AttrsBefore == {c.attr : c \in get_cols(SchemaBefore)}

ColBefore(kwarg) == CHOOSE c \in get_cols(SchemaBefore) : c.attr = kwarg

\* C1: create_page with at least one keyword that is no attribute of the schema
\* raises SchemaError and issues no transport call, whatever the other keywords
\* are (valid, or mapped to a read-only column).
C1_UnknownKwargIsSchemaError ==
    (last.op = "create_page" /\ ~(PassedKwargs \subseteq AttrsBefore))
        => (last.exc = "SchemaError" /\ sent = <<>>)

\* an unknown keyword passed after a keyword of a read-only column was rejected
C1_Witness ==
    /\ last.op = "create_page"
    /\ Len(last.kwargs) = 2
    /\ last.kwargs[1].k \in AttrsBefore
    /\ readonly(ColBefore(last.kwargs[1].k).type)
    /\ last.kwargs[2].k \notin AttrsBefore
    /\ last.exc = "SchemaError"
    /\ sent = <<>>

\* C2: create_page with keywords that are all schema attributes, one at least of
\* a read-only column, raises ReadOnlyColumnError and issues no transport call,
\* wherever the read-only keyword stands.
C2_ReadOnlyKwargIsReadOnlyColumnError ==
    ( /\ last.op = "create_page"
      /\ PassedKwargs \subseteq AttrsBefore
      /\ \E k \in PassedKwargs : readonly(ColBefore(k).type) )
        => (last.exc = "ReadOnlyColumnError" /\ readonly(last.col.type) /\ sent = <<>>)

\* the read-only keyword came second, after a writable one
C2_Witness ==
    /\ last.op = "create_page"
    /\ Len(last.kwargs) = 2
    /\ PassedKwargs \subseteq AttrsBefore
    /\ ~readonly(ColBefore(last.kwargs[1].k).type)
    /\ readonly(ColBefore(last.kwargs[2].k).type)
    /\ last.exc = "ReadOnlyColumnError"
    /\ sent = <<>>

\* C3: for keywords that are all writable schema attributes, pages.create gets a
\* properties payload with exactly one entry per keyword, under the column's
\* server-side name, and no entry (value or null) for a column not passed.
C3_PayloadHasExactlyPassedColumns ==
    ( /\ last.op = "create_page"
      /\ PassedKwargs \subseteq AttrsBefore
      /\ \A k \in PassedKwargs : ~readonly(ColBefore(k).type) )
        => /\ last.exc = "none"
           /\ Len(sent) = 1
           /\ sent[1].api = "pages.create"
           /\ {e.name : e \in sent[1].properties} = {ColBefore(k).name : k \in PassedKwargs}
           /\ Cardinality(sent[1].properties) = Len(last.kwargs)
           /\ \A e \in sent[1].properties : e.obj.type # "null"

\* one of two writable columns was passed, under an attribute name that differs
\* from the column name: the payload holds that column only
C3_Witness ==
    /\ last.op = "create_page"
    /\ Len(last.kwargs) = 1
    /\ last.kwargs[1].k = "unit_Cost"
    /\ Len(sent) = 1
    /\ {e.name : e \in sent[1].properties} = {"Unit Cost"}

\* C4: assigning a schema that is not consistent with the current one raises
\* SchemaError whose message lists the differing columns by key as added,
\* removed and changed, every column of the server that the assigned schema
\* lacks being under "Columns removed"; db.schema is afterwards what it was.
C4_InconsistentSchemaIsRejectedWithDiff ==
    (last.op = "schema_set" /\ ~is_consistent_with(SchemaBefore, last.arg))
        => /\ last.exc = "SchemaError"
           /\ last.diff.added = Keys(to_dict(last.arg)) \ Keys(to_dict(SchemaBefore))
           /\ last.diff.removed = Keys(to_dict(SchemaBefore)) \ Keys(to_dict(last.arg))
           /\ last.diff.changed =
                 {k \in Keys(to_dict(last.arg)) \cap Keys(to_dict(SchemaBefore)) :
                     \E c \in get_cols(SchemaBefore), d \in get_cols(last.arg) :
                         c.name = k /\ d.name = k /\ c.type # d.type}
           /\ \A i \in DOMAIN properties :
                 properties[i].name \notin Keys(to_dict(last.arg))
                     => properties[i].name \in last.diff.removed
           /\ _schema = SchemaBefore

\* C5: the schema is reflected at most once, and only while none is cached; a
\* read with a cached schema returns that schema; the cached schema changes
\* only by a schema assignment that succeeds.
C5_SchemaCachedUntilReassigned ==
    /\ [](reflections <= 1)
    /\ []((last.op = "schema_get" /\ last.before # NoSchema)
            => (last.ret = last.before /\ _schema = last.before))
    /\ [][ /\ (reflections' # reflections => _schema = NoSchema)
           /\ ((_schema # NoSchema /\ _schema' # _schema)
                 => (last'.op = "schema_set" /\ last'.exc = "none")) ]_vars

\* an assigned schema was read back after the one reflection
C5_Witness ==
    /\ reflections = 1
    /\ last.op = "schema_get"
    /\ last.before.id = "Renamed"
    /\ last.ret.id = "Renamed"

\* C6: assigning a schema with the columns of the current one under other
\* attribute names succeeds: it is bound and stored, reads return it, and
\* create_page then takes its attribute names and rejects the former ones.
C6_RenamingSchemaIsAccepted ==
    /\ (last.op = "schema_set" /\ is_consistent_with(SchemaBefore, last.arg))
          => (last.exc = "none" /\ _schema = last.arg /\ last.arg.id \in bound_db)
    /\ (last.op = "schema_get" /\ last.before \in UserSchemas)
          => last.ret = last.before
    /\ (last.op = "create_page" /\ last.before \in UserSchemas)
          => (last.exc = "SchemaError"
                <=> \E k \in PassedKwargs : k \notin {c.attr : c \in get_cols(last.before)})

\* after the renaming assignment a page was created under the new attribute name
C6_Witness ==
    /\ last.op = "create_page"
    /\ last.before.id = "Renamed"
    /\ "title" \in PassedKwargs
    /\ "title" \notin {c.attr : c \in get_cols(_reflect_schema(properties))}
    /\ last.exc = "none"
    /\ Len(sent) = 1

\* every schema class of the model
AllSchemas == UserSchemas \cup {_reflect_schema(m) : m \in ServerMaps}

C14_PayloadTagsMatchColumnTypes ==
    (last.op = "create_page" /\ Len(sent) = 1)
        => \A e \in sent[1].properties :
              \E c \in get_cols(SchemaBefore) : c.name = e.name /\ c.type = e.obj.type

\* C15: reflecting a database yields one column per server column, each under
\* an attribute name of its own (two display names that derive the same
\* identifier are told apart, no server column is dropped or overwritten), and
\* the reflected schema is bound to the database.
C15_ReflectionKeepsEveryColumn ==
    (last.op = "schema_get" /\ last.before = NoSchema)
        => /\ \A i \in DOMAIN properties :
                 \E c \in get_cols(last.ret) :
                     c.name = properties[i].name /\ c.type = properties[i].type
           /\ Cardinality(get_cols(last.ret)) = Len(properties)
           /\ Cardinality({c.attr : c \in get_cols(last.ret)}) = Len(properties)
           /\ last.ret.id \in bound_db
           /\ _schema = last.ret

-----------------------------------------------------------------------------
(* Properties of the multi-valued property values, checked under SpecProp. *)

\* the membership test `v in x` of the property value's class
Contains(items, v) ==
    CASE prop.type = "multi_select" -> ms_contains(items, v)
      [] prop.type = "relation" -> rel_contains(items, v)
      [] prop.type = "files" -> files_contains(items, v)

\* the values a caller may hand to += and -=: option names, pages, FileObjects
ValidArgs ==
    CASE prop.type = "multi_select" -> {a \in MsArgs : a.py = "str"}
      [] prop.type = "relation" -> RelArgs
      [] prop.type = "files" -> FilesArgs
      [] OTHER -> {}

\* C8: after x += v, for a value v that was not in x, v is in x and every
\* value that was in x is still in x.
C8_IaddAddsAndKeeps ==
    (res.op = "iadd" /\ res.args[1] \in ValidArgs /\ ~Contains(res.before, res.args[1]))
        => /\ res.exc = "none"
           /\ Contains(prop.items, res.args[1])
           /\ \A w \in ValidArgs : Contains(res.before, w) => Contains(prop.items, w)
           /\ \A i \in DOMAIN res.before : \E j \in DOMAIN prop.items : prop.items[j] = res.before[i]

\* a Page object was added to a Relation that already held another reference
C8_Witness ==
    /\ prop.type = "relation"
    /\ res.op = "iadd"
    /\ res.args[1].kind = "Page"
    /\ res.before # <<>>
    /\ res.exc = "none"
    /\ Len(prop.items) = Len(res.before) + 1

\* whether two arguments name the same option, page or file
SameValue(v, w) ==
    CASE prop.type = "multi_select" -> v.s = w.s
      [] prop.type = "relation" -> ObjectReference_compose(v) = ObjectReference_compose(w)
      [] prop.type = "files" -> FileOf(v) = FileOf(w)

\* C9: x -= v, for a value v that is in x, does not raise; afterwards v is not
\* in x and every other member of x still is.
C9_IsubRemovesAndKeeps ==
    (res.op = "isub" /\ res.args[1] \in ValidArgs /\ Contains(res.before, res.args[1]))
        => /\ res.exc = "none"
           /\ ~Contains(prop.items, res.args[1])
           /\ \A w \in ValidArgs :
                 (Contains(res.before, w) /\ ~SameValue(w, res.args[1]))
                     => Contains(prop.items, w)

\* C10: x += v, for a value v that is in x, raises the duplicate error and
\* leaves x as it was: the same members in the same order.
C10_IaddDuplicateRaises ==
    (res.op = "iadd" /\ res.args[1] \in ValidArgs /\ Contains(res.before, res.args[1]))
        => /\ res.exc = "ValueError"
           /\ res.msg \in {"Duplicate item", "Item exists"}
           /\ prop.items = res.before

\* the name of an option that the server sent with an id was added again
C10_Witness ==
    /\ prop.type = "multi_select"
    /\ res.op = "iadd"
    /\ \E i \in DOMAIN res.before :
          res.before[i].name = res.args[1].s /\ res.before[i].id # ""
    /\ res.exc = "ValueError"
    /\ prop.items = res.before

\* C11: x -= v, for a value v that is not in x, raises the not-found error
\* (a ValueError) and leaves x as it was: the same items in the same order.
C11_IsubAbsentRaises ==
    (res.op = "isub" /\ ~Contains(res.before, res.args[1]))
        => /\ res.exc = "ValueError"
           /\ res.msg \in {"No such item", "list.remove(x): x not in list"}
           /\ prop.items = res.before

\* a page that a non-empty Relation does not hold was taken out of it
C11_Witness ==
    /\ prop.type = "relation"
    /\ res.op = "isub"
    /\ res.before # <<>>
    /\ ~rel_contains(res.before, res.args[1])
    /\ res.exc = "ValueError"
    /\ prop.items = res.before

-----------------------------------------------------------------------------
(* Properties of the single-valued property values, checked under          *)
(* SpecValue.                                                              *)

\* C12: equality of Status and of SelectOne values goes by the option name
\* only: two values are equal iff their names are, whatever their ids and
\* colors; a value equals a string iff the string is its name; a value equals
\* None iff it holds no option; and comparing two values never raises.
C12_EqualityByNameNeverRaises ==
    (out.op = "eq")
        => /\ (out.other.kind = "object")
                => /\ out.exc = "none"
                   /\ (val.opt # NoOption /\ out.other.obj.opt # NoOption)
                         => (out.ret.b <=> val.opt.name = out.other.obj.opt.name)
           /\ (out.other.kind = "native" /\ out.other.nat.py = "str" /\ val.opt # NoOption)
                => (out.exc = "none" /\ (out.ret.b <=> out.other.nat.s = val.opt.name))
           /\ (out.other.kind = "native" /\ out.other.nat.py = "None")
                => (out.exc = "none" /\ (out.ret.b <=> val.opt = NoOption))

\* C13: for every variant with a native scalar correspondence and every
\* native value its composer accepts, the Value of the composed variant is
\* that native value.
C13_ComposeThenValueRoundTrip ==
    (out.op = "Value" /\ out.composed)
        => (out.exc = "none" /\ out.ret = out.from)

\* a SelectOne composed from a name was read back
C13_Witness ==
    /\ out.op = "Value"
    /\ out.composed
    /\ val.type = "select"
    /\ out.from = PyStr("Done")
    /\ out.ret = PyStr("Done")

-----------------------------------------------------------------------------
(* Properties of the endpoint wrappers, checked under SpecBlocks,          *)
(* SpecEndpoint and SpecEndpointFair.                                      *)

\* C16: blocks.children.append, when the response has no results or a number
\* of results other than the number of blocks passed, raises nothing, leaves
\* every block as it was before the call, logs a warning and returns the
\* parent, after its one transport call.
C16_AppendMismatchKeepsBlocks ==
    [][ ( /\ ep'.op = "blocks.children.append"
          /\ ~ep'.resp.has_results \/ ep'.resp.n # Len(ep'.blocks) )
          => /\ ep'.exc = "none"
             /\ objs' = objs
             /\ Len(ep'.log) = 1
             /\ ep'.ret = ep'.ref
             /\ Len(calls') = 1 ]_vars

\* two living blocks were appended and the response held one result: none of
\* the two was refreshed and the warning was logged
C16_Witness ==
    /\ ep.op = "blocks.children.append"
    /\ ep.blocks = <<[kind |-> "object", id |-> "b1"], [kind |-> "object", id |-> "b2"]>>
    /\ ep.resp = [has_results |-> TRUE, n |-> 1]
    /\ ep.exc = "none"
    /\ ep.log = <<"Unable to refresh results; size mismatch">>
    /\ objs["b1"].src = "local"
    /\ objs["b2"].src = "local"
    /\ ep.ret = ep.ref

\* C17: a request body holds a field iff the matching optional argument was
\* supplied: parent, title and properties of databases create/update when not
\* None; cover and icon of pages.set when not the sentinel False, None being
\* sent as an empty object; archived when True or False; query of search when
\* the text is not None.
C17_BodyHasExactlySuppliedFields ==
    /\ (ep.op \in {"databases.create", "databases.update"})
          => /\ "parent" \in Fields(ep.body) <=> ep.args.parent # NoRef
             /\ "title" \in Fields(ep.body) <=> ep.args.title # "None"
             /\ "properties" \in Fields(ep.body) <=> ep.args.schema # "None"
             /\ Fields(ep.body) \subseteq {"parent", "title", "properties"}
             /\ \A i \in DOMAIN calls : calls[i].body = ep.body
    /\ (ep.op \in {"pages.set", "pages.delete", "pages.restore"})
          => /\ "cover" \in Fields(ep.body) <=> ep.args.cover # "False"
             /\ "icon" \in Fields(ep.body) <=> ep.args.icon # "False"
             /\ "archived" \in Fields(ep.body) <=> ep.args.archived \in {"True", "False"}
             /\ Fields(ep.body) \subseteq {"cover", "icon", "archived"}
             /\ \A f \in ep.body :
                   \/ f.field = "cover" /\ f.value = IF ep.args.cover = "None" THEN <<>>
                                                     ELSE <<ep.args.cover>>
                   \/ f.field = "icon" /\ f.value = IF ep.args.icon = "None" THEN <<>>
                                                    ELSE <<ep.args.icon>>
                   \/ f.field = "archived" /\ f.value = <<ep.args.archived>>
             /\ \A i \in DOMAIN calls : calls[i].body = ep.body
    /\ (ep.op = "search")
          => /\ "query" \in Fields(ep.body) <=> ep.args.text # "None"
             /\ Fields(ep.body) \subseteq {"query"}
             /\ ep.iter.params = ep.body

\* the cover of a page was removed: the body holds cover as an empty object
\* and neither icon nor archived
C17_Witness ==
    /\ ep.op = "pages.set"
    /\ ep.args.cover = "None"
    /\ ep.args.icon = "False"
    /\ ep.args.archived = "None"
    /\ ep.body = {Field("cover", <<>>)}
    /\ ep.exc = "none"
    /\ Len(calls) = 1
    /\ calls[1].body = ep.body

\* the create, retrieve, update, delete and restore methods
CrudOps ==
    {e \o "." \o m : e \in {"blocks", "databases", "pages"},
                     m \in {"create", "retrieve", "update", "delete", "restore"}}

\* C18: every create, retrieve, update, delete or restore call of an endpoint
\* that returns normally has issued exactly one raw transport call, whatever
\* optional arguments were supplied.
C18_OneTransportCallPerOperation ==
    (ep.op \in CrudOps /\ ep.exc = "none") => Len(calls) = 1

\* C19: pages.set, pages.delete, pages.restore and databases.update take a
\* living object or its raw id: either way the transport is called with the
\* canonical id and the method returns without error, and a living object is
\* refreshed from the response.
C19_ReferenceOrRawIdAccepted ==
    (ep.op \in {"pages.set", "pages.delete", "pages.restore", "databases.update"})
        => /\ ep.exc = "none"
           /\ \A i \in DOMAIN calls : calls[i].id = Canon(ep.ref.id)
           /\ (ep.op # "databases.update" \/ ep.body # {}) => Len(calls) = 1
           /\ (ep.ref.kind = "object" /\ calls # <<>>)
                 => (objs[ep.ref.id].src = "server" /\ ep.ret = ep.ref)

\* the number of pages the server cuts a listing into
PagesOf(records) ==
    IF Len(records) = 0 THEN 1 ELSE (Len(records) + PageSize - 1) \div PageSize

\* the round trips of a listing so far are in sequence: the first without a
\* cursor, each later one with the cursor the one before returned
ListingInSequence ==
    LET it == ep.iter
    IN  /\ (ep.op \in {"databases.query", "search", "blocks.children.list"})
              => (it.state = "built" /\ calls = <<>>)
        /\ (it.state \in {"running", "done"})
              => /\ Len(calls) = Len(it.returned)
                 /\ \A i \in DOMAIN calls :
                       /\ calls[i].api = it.api
                       /\ calls[i].id = it.id
                       /\ calls[i].cursor = IF i = 1 THEN 0 ELSE it.returned[i - 1]
                 /\ \A i \in DOMAIN it.returned :
                       i < Len(it.returned) => it.returned[i] # 0
                 /\ it.state = "done"
                       <=> (it.returned # <<>> /\ it.returned[Len(it.returned)] = 0)
                 /\ it.state = "done"
                       => /\ it.results = Listing(it.api, it.params)
                          /\ Len(calls) = PagesOf(Listing(it.api, it.params))

\* C20: a query, search or list issues one round trip per page of results, in
\* sequence, each after the first with the cursor the previous one returned;
\* it ends, and ends exactly when the server reports no continuation; every
\* execute() starts again at the first page.
C20_OneRoundTripPerPage ==
    /\ []ListingInSequence
    /\ [][ (ep'.op = "execute" /\ ep.iter.state # "running")
             => (calls' = <<>> /\ ep'.iter.cursor = 0 /\ ep'.iter.results = <<>>) ]_vars
    /\ (ep.iter.state = "running") ~> (ep.iter.state = "done")

\* the query of the database ended after two round trips, the second with the
\* cursor of the first
C20_Witness ==
    /\ ep.iter.state = "done"
    /\ ep.iter.api = "databases.query"
    /\ Len(calls) = 2
    /\ calls[2].cursor = ep.iter.returned[1]
    /\ calls[2].cursor # 0
    /\ ep.iter.results = ServerRecords

-----------------------------------------------------------------------------
(* Further properties of the Database facade, checked under SpecDB.        *)

\* C21: the pages of the View that Database.view returns are the records of
\* the database query in the order the transport returned them: one Page per
\* record, none dropped, duplicated or moved.
C21_ViewKeepsTransportOrder ==
    (last.op = "view")
        => /\ Len(last.pages) = Len(ServerRecords)
           /\ \A i \in DOMAIN last.pages : last.pages[i] = Page(ServerRecords[i])
           /\ \A i \in DOMAIN sent : sent[i].api = "databases.query"

\* the view of a database whose records came in more than one round trip
C21_Witness ==
    /\ last.op = "view"
    /\ Len(sent) >= 1
    /\ Len(last.pages) = 3
    /\ last.pages[1].obj_ref = "p1"
    /\ last.pages[3].obj_ref = "p3"

-----------------------------------------------------------------------------
(* Native representations: RichText of objects.py and Number, Formula and  *)
(* Rollup of obj_api/props.py, with the Python built-ins they rely on.     *)

MaxSpans == 2

MaxNumber == 2

PyFloat(n) == [py |-> "float", s |-> "", n |-> n, b |-> FALSE]

\* a DateRange, known by its start
PyDate(start) == [py |-> "date", s |-> start, n |-> 0, b |-> FALSE]

\* a list, known by the repr of its items
PyList(items) == [py |-> "list", s |-> "", n |-> 0, b |-> FALSE, items |-> items]

Digits == <<"0", "1", "2", "3", "4", "5", "6", "7", "8", "9">>

\* str() of an int
RECURSIVE IntStr(_)
IntStr(n) ==
    IF n < 0 THEN "-" \o IntStr(0 - n)
    ELSE IF n < 10 THEN Digits[n + 1]
    ELSE IntStr(n \div 10) \o Digits[(n % 10) + 1]

\* ", ".join(items)
RECURSIVE JoinItems(_)
JoinItems(items) ==
    IF items = <<>> THEN ""
    ELSE IF Len(items) = 1 THEN Head(items)
    ELSE Head(items) \o ", " \o JoinItems(Tail(items))

\* the built-in str(v)
py_str(v) ==
    CASE v.py = "None" -> "None"
      [] v.py = "str" -> v.s
      [] v.py = "int" -> IntStr(v.n)
      [] v.py = "float" -> IntStr(v.n) \o ".0"
      [] v.py = "bool" -> IF v.b THEN "True" ELSE "False"
      [] v.py = "date" -> v.s
      [] v.py = "list" -> "[" \o JoinItems(v.items) \o "]"

\* the truth value of v, as `v or default` tests it
py_bool(v) ==
    CASE v.py = "None" -> FALSE
      [] v.py = "str" -> v.s # ""
      [] v.py \in {"int", "float"} -> v.n # 0
      [] v.py = "bool" -> v.b
      [] v.py = "date" -> TRUE
      [] v.py = "list" -> v.items # <<>>

\* the built-in hash of a str: equal strings have equal hashes, different
\* strings may collide
py_hash(s) == Len(s)

is_number(v) == v.py \in {"int", "float"}

\* a + b, a - b, a * b of two native values
py_arith(op, a, b) ==
    IF ~is_number(a) \/ ~is_number(b)
    THEN Raise("TypeError")
    ELSE Ret([py |-> IF a.py = "int" /\ b.py = "int" THEN "int" ELSE "float",
              s |-> "",
              n |-> CASE op = "+" -> a.n + b.n
                      [] op = "-" -> a.n - b.n
                      [] op = "*" -> a.n * b.n,
              b |-> FALSE])

\* a < b of two native values
py_less(a, b) ==
    IF ~is_number(a) \/ ~is_number(b)
    THEN Raise("TypeError")
    ELSE Ret(PyBool(a.n < b.n))

\* a == b of two native values
py_eq(a, b) ==
    IF is_number(a) /\ is_number(b) THEN a.n = b.n ELSE a = b

\* the result of a method that returns an object
RetObj(o) == [exc |-> "none", ret |-> PyNone, obj |-> o]

\* ---- RichText (objects.py) ----

SpanTexts == {"", "a", "b", "ab"}

\* RichText.wrap_obj_ref(obj_refs): the list of the wrapped rich text objects
RichText(obj_refs) == [type |-> "RichText", rtf |-> obj_refs]

RichTexts ==
    {RichText(rich_text(t)) : t \in SeqsUpTo({PyStr(s) : s \in SpanTexts}, MaxSpans)}

\* RichText.to_plain_text: None for the empty list, else the joined plain texts
RichText_to_plain_text(self) ==
    IF self.rtf = <<>> THEN PyNone ELSE PyStr(plain_text(self.rtf))

\* RichText.__str__
RichText_str(self) ==
    LET text == RichText_to_plain_text(self)
    IN  IF text # PyNone THEN text.s ELSE ""

\* an equality by the list of spans
RichText_eq_structural(self, other) ==
    IF other.kind = "native"
    THEN Ret(PyBool(RichText_str(self) = other.nat.s))
    ELSE Ret(PyBool(self.rtf = other.obj.rtf))

\* RichText.__eq__(self, other) for other a str or a RichText
RichText_eq(self, other) ==
    IF other.kind = "native"
    THEN Ret(PyBool(RichText_str(self) = other.nat.s))
    ELSE Ret(PyBool(RichText_str(self) = RichText_str(other.obj)))

\* RichText.__hash__
RichText_hash(self) == py_hash(RichText_str(self))

\* what a RichText is compared with: a str or a RichText
RichTextOthers ==
    {[kind |-> "native", nat |-> PyStr(s), obj |-> NoVal] : s \in SpanTexts \cup {"ba", "aa"}}
    \cup {[kind |-> "object", nat |-> PyNone, obj |-> o] : o \in RichTexts}

\* ---- Formula and Rollup (props.py) ----

\* the formula field of a Formula that holds None
NoFormula ==
    [type |-> "None", string |-> PyNone, number |-> PyNone, date |-> PyNone,
     boolean |-> PyNone]

\* a FormulaResult of the class registered for the tag, with its one field
FormulaResult(type, value) == [NoFormula EXCEPT !.type = type, ![type] = value]

FormulaResults ==
    {FormulaResult("string", v) : v \in {PyNone, PyStr(""), PyStr("x")}}
    \cup {FormulaResult("number", v) : v \in {PyNone, PyNum(0), PyNum(3)}}
    \cup {FormulaResult("date", v) : v \in {PyNone, PyDate("2024-01-01")}}
    \cup {FormulaResult("boolean", v) : v \in {PyNone, PyBool(FALSE), PyBool(TRUE)}}

Formula(formula) == [type |-> "formula", formula |-> formula]

StringFormula_Result(self) == self.string

\* a number result that reads another field
NumberFormula_Result_string(self) == self.string

NumberFormula_Result(self) == self.number

DateFormula_Result(self) == self.date

BooleanFormula_Result(self) == self.boolean

\* formula.Result, dispatched on the class of the tag
FormulaResult_Result(self) ==
    CASE self.type = "string" -> StringFormula_Result(self)
      [] self.type = "number" -> NumberFormula_Result(self)
      [] self.type = "date" -> DateFormula_Result(self)
      [] self.type = "boolean" -> BooleanFormula_Result(self)

\* Formula.Result
Formula_Result(self) ==
    IF self.formula = NoFormula THEN Ret(PyNone) ELSE Ret(FormulaResult_Result(self.formula))

\* Formula.__str__: str(self.Result or "")
Formula_str(self) ==
    LET Result == Formula_Result(self).ret
    IN  Ret(PyStr(py_str(IF py_bool(Result) THEN Result ELSE PyStr(""))))

\* the rollup field of a Rollup that holds None
NoRollup ==
    [type |-> "None", number |-> PyNone, date |-> PyNone, array |-> PyNone]

RollupObject(type, value) == [NoRollup EXCEPT !.type = type, ![type] = value]

RollupObjects ==
    {RollupObject("number", v) : v \in {PyNone, PyNum(0), PyNum(3)}}
    \cup {RollupObject("date", v) : v \in {PyNone, PyDate("2024-01-01")}}
    \cup {RollupObject("array", PyList(l)) : l \in {<<>>, <<"Number(1)">>, <<"Number(1)", "Number(2)">>}}

Rollup(rollup) == [type |-> "rollup", rollup |-> rollup]

RollupNumber_Value(self) == self.number

RollupDate_Value(self) == self.date

RollupArray_Value(self) == self.array

\* rollup.Value, dispatched on the class of the tag; None has no Value
RollupObject_Value(self) ==
    CASE self.type = "number" -> Ret(RollupNumber_Value(self))
      [] self.type = "date" -> Ret(RollupDate_Value(self))
      [] self.type = "array" -> Ret(RollupArray_Value(self))
      [] OTHER -> Raise("AttributeError")

\* Rollup.__str__
Rollup_str(self) ==
    IF self.rollup = NoRollup
    THEN Ret(PyStr(""))
    ELSE LET value == RollupObject_Value(self.rollup).ret
         IN  IF value = PyNone THEN Ret(PyStr("")) ELSE Ret(PyStr(py_str(value)))

\* ---- Number (props.py) ----

Number(number) == PropertyValue("number", NoOption, number, <<>>)

Numbers == {Number(PyNone)} \cup {Number(PyNum(n)) : n \in 0..MaxNumber}

\* the right operand of an operator: a native number, None or a Number
NumberOthers ==
    {[kind |-> "native", nat |-> n, obj |-> NoVal] :
        n \in {PyNone} \cup {PyNum(k) : k \in 0..MaxNumber}}
    \cup {[kind |-> "object", nat |-> PyNone, obj |-> o] : o \in Numbers}

\* Number.__float__
Number_float(self) ==
    IF self.nat = PyNone THEN Raise("ValueError") ELSE Ret(PyFloat(self.nat.n))

\* Number.__int__
Number_int(self) ==
    IF self.nat = PyNone THEN Raise("ValueError") ELSE Ret(PyNum(self.nat.n))

\* the built-in float(other) of an operand
float_of(other) ==
    IF other.kind = "object" THEN Number_float(other.obj)
    ELSE IF is_number(other.nat) THEN Ret(PyFloat(other.nat.n))
    ELSE Raise("TypeError")

\* self.number += other / self.number -= other: the Number after the
\* statement, unchanged when it raises
Number_inplace(op, self, other) ==
    LET r == py_arith(op, self.nat, IF other.kind = "object" THEN other.obj.nat ELSE other.nat)
    IN  IF r.exc # "none"
        THEN [exc |-> r.exc, self |-> self]
        ELSE [exc |-> "none", self |-> [self EXCEPT !.nat = r.ret]]

\* an in-place addition that counts None as zero
Number_iadd_zero(self, other) ==
    Number_inplace("+", IF self.nat = PyNone THEN Number(PyNum(0)) ELSE self, other)

\* Number.__iadd__
Number_iadd(self, other) == Number_inplace("+", self, other)

\* Number.__isub__
Number_isub(self, other) == Number_inplace("-", self, other)

\* Number[value]: a Number handed over as the value is converted by the
\* validation of the field through __float__
Number_compose(r, coerce) ==
    IF r.exc # "none" THEN r
    ELSE RetObj(NativeTypeMixin_compose("number", IF coerce THEN PyFloat(r.ret.n) ELSE r.ret).obj)

\* Number.__add__: Number[other + self.Value]; for other a Number the sum is
\* other.__add__(self.Value), itself a Number
Number_add(self, other) ==
    IF other.kind = "object"
    THEN Number_compose(py_arith("+", self.nat, other.obj.nat), TRUE)
    ELSE Number_compose(py_arith("+", other.nat, self.nat), FALSE)

\* Number.__sub__: Number[self.Value - float(other)]
Number_sub(self, other) ==
    LET f == float_of(other)
    IN  IF f.exc # "none" THEN f ELSE Number_compose(py_arith("-", self.nat, f.ret), FALSE)

\* Number.__mul__: Number[other * self.Value]
Number_mul(self, other) ==
    IF other.kind = "object"
    THEN Number_compose(py_arith("*", self.nat, other.obj.nat), TRUE)
    ELSE Number_compose(py_arith("*", other.nat, self.nat), FALSE)

\* Number.__lt__: other > self.Value; for other a Number that is
\* other.__gt__(self.Value), self.Value < other.Value
Number_lt(self, other) ==
    py_less(self.nat, IF other.kind = "object" THEN other.obj.nat ELSE other.nat)

\* Number.__gt__: other < self.Value
Number_gt(self, other) ==
    py_less(IF other.kind = "object" THEN other.obj.nat ELSE other.nat, self.nat)

\* NativeTypeMixin.__eq__: other == self.Value
Number_eq(self, other) ==
    Ret(PyBool(py_eq(IF other.kind = "object" THEN other.obj.nat ELSE other.nat, self.nat)))

\* Number.__le__: self < other or self == other
Number_le(self, other) ==
    LET lt == Number_lt(self, other)
    IN  IF lt.exc # "none" \/ lt.ret.b THEN lt ELSE Number_eq(self, other)

\* Number.__ge__: self > other or self == other
Number_ge(self, other) ==
    LET gt == Number_gt(self, other)
    IN  IF gt.exc # "none" \/ gt.ret.b THEN gt ELSE Number_eq(self, other)

\* ---- the operations as steps ----

NoResult == [op |-> "init", other |-> NoOther, exc |-> "none", ret |-> PyNone, obj |-> NoVal]

\* the outcome r of operation op on val with operand other
Done(op, other, r) ==
    /\ out' = [op |-> op, other |-> other, exc |-> r.exc, ret |-> r.ret,
               obj |-> IF "obj" \in DOMAIN r THEN r.obj ELSE NoVal]
    /\ UNCHANGED <<val, dbvars, propvars, epvars>>

\* text.to_plain_text()
RichTextPlain ==
    /\ val.type = "RichText"
    /\ Done("to_plain_text", NoOther, Ret(RichText_to_plain_text(val)))

\* str(text)
RichTextStr ==
    /\ val.type = "RichText"
    /\ Done("str", NoOther, Ret(PyStr(RichText_str(val))))

\* text == other
RichTextEq ==
    /\ val.type = "RichText"
    /\ \E other \in RichTextOthers : Done("eq", other, RichText_eq(val, other))

\* hash(text) == hash(other) for other a RichText
RichTextHash ==
    /\ val.type = "RichText"
    /\ \E other \in {o \in RichTextOthers : o.kind = "object"} :
          Done("hash", other, Ret(PyBool(RichText_hash(val) = RichText_hash(other.obj))))

\* formula.Result
FormulaResultOf ==
    /\ val.type = "formula"
    /\ Done("Result", NoOther, Formula_Result(val))

\* str(formula)
FormulaStr ==
    /\ val.type = "formula"
    /\ Done("str", NoOther, Formula_str(val))

\* rollup.rollup.Value
RollupValueOf ==
    /\ val.type = "rollup"
    /\ Done("Value", NoOther, RollupObject_Value(val.rollup))

\* str(rollup)
RollupStr ==
    /\ val.type = "rollup"
    /\ Done("str", NoOther, Rollup_str(val))

\* number <op> other for the operators that return a value
NumberOp(op, other, r) == val.type = "number" /\ Done(op, other, r)

NumberAdd == \E other \in NumberOthers : NumberOp("add", other, Number_add(val, other))

NumberSub == \E other \in NumberOthers : NumberOp("sub", other, Number_sub(val, other))

NumberMul == \E other \in NumberOthers : NumberOp("mul", other, Number_mul(val, other))

NumberLt == \E other \in NumberOthers : NumberOp("lt", other, Number_lt(val, other))

NumberGt == \E other \in NumberOthers : NumberOp("gt", other, Number_gt(val, other))

NumberLe == \E other \in NumberOthers : NumberOp("le", other, Number_le(val, other))

NumberGe == \E other \in NumberOthers : NumberOp("ge", other, Number_ge(val, other))

NumberInt == NumberOp("int", NoOther, Number_int(val))

NumberFloat == NumberOp("float", NoOther, Number_float(val))

\* number += other and number -= other, within the numbers of the model
NumberInplace(op, other, r) ==
    /\ val.type = "number"
    /\ r.self.nat.n \in (0 - MaxNumber)..MaxNumber
    /\ val' = r.self
    /\ out' = [op |-> op, other |-> other, exc |-> r.exc, ret |-> PyNone, obj |-> NoVal]
    /\ UNCHANGED <<dbvars, propvars, epvars>>

NumberIadd == \E other \in NumberOthers : NumberInplace("iadd", other, Number_iadd(val, other))

NumberIsub == \E other \in NumberOthers : NumberInplace("isub", other, Number_isub(val, other))

\* a RichText, a Formula, a Rollup or a Number as parsed from the server
InitNative ==
    /\ val \in RichTexts
               \cup {Formula(f) : f \in FormulaResults \cup {NoFormula}}
               \cup {Rollup(r) : r \in RollupObjects \cup {NoRollup}}
               \cup Numbers
    /\ out = NoResult
    /\ properties = <<>>
    /\ _schema = NoSchema
    /\ bound_db = {}
    /\ reflections = 0
    /\ last = NoOp
    /\ sent = <<>>
    /\ prop = NoProp
    /\ res = NoRes
    /\ objs = NoObjs
    /\ calls = <<>>
    /\ ep = NoEp

NextNative ==
    \/ RichTextPlain \/ RichTextStr \/ RichTextEq \/ RichTextHash
    \/ FormulaResultOf \/ FormulaStr \/ RollupValueOf \/ RollupStr
    \/ NumberAdd \/ NumberSub \/ NumberMul
    \/ NumberLt \/ NumberGt \/ NumberLe \/ NumberGe
    \/ NumberInt \/ NumberFloat \/ NumberIadd \/ NumberIsub

SpecNative == InitNative /\ [][NextNative]_vars

-----------------------------------------------------------------------------
(* Properties of the native representations, checked under SpecNative.     *)

\* C22: equality and hash of a RichText go by the rendered plain text only:
\* two RichText values are equal iff the texts of their spans, joined, are
\* equal, a RichText equals a str iff the str is that joined text, equal
\* values have equal hashes, and the empty RichText renders as "".
C22_EqualityByPlainText ==
    (val.type = "RichText") =>
        /\ (out.op = "eq" /\ out.other.kind = "object")
               => /\ out.exc = "none"
                  /\ out.ret = PyBool(plain_text(val.rtf) = plain_text(out.other.obj.rtf))
        /\ (out.op = "eq" /\ out.other.kind = "native")
               => /\ out.exc = "none"
                  /\ out.ret = PyBool(plain_text(val.rtf) = out.other.nat.s)
        /\ (out.op = "hash" /\ plain_text(val.rtf) = plain_text(out.other.obj.rtf))
               => out.ret = PyBool(TRUE)
        /\ (out.op = "str") => out.ret = PyStr(plain_text(val.rtf))

\* two RichText values with the same text split differently compare equal
C22_Witness ==
    /\ val.type = "RichText"
    /\ out.op = "eq"
    /\ out.other.kind = "object"
    /\ Len(val.rtf) = 2
    /\ Len(out.other.obj.rtf) = 1
    /\ plain_text(val.rtf) = "ab"
    /\ out.ret = PyBool(TRUE)

\* C23: the native value of a Formula or of a rollup object is the content of
\* the field named by the inner tag (string, number, date or boolean for a
\* formula; number, date or array for a rollup), and the Result of a Formula
\* that holds no result is None, not an exception.
C23_ValueByInnerTag ==
    /\ (val.type = "formula" /\ out.op = "Result")
          => /\ out.exc = "none"
             /\ out.ret = IF val.formula = NoFormula THEN PyNone
                           ELSE val.formula[val.formula.type]
    /\ (val.type = "rollup" /\ out.op = "Value" /\ val.rollup # NoRollup)
          => /\ out.exc = "none"
             /\ out.ret = val.rollup[val.rollup.type]

\* the Result of a number formula that holds 3
C23_Witness ==
    /\ val.type = "formula"
    /\ val.formula.type = "number"
    /\ out.op = "Result"
    /\ out.ret = PyNum(3)

\* C30: the string form of a Formula is the string of its result for every
\* result: "" only when there is no result (None), and str() of the result
\* otherwise, so that 0 renders as "0" and False as "False"; a Rollup renders
\* every value other than None with str().
C30_StrOfEveryResult ==
    /\ (val.type = "formula" /\ out.op = "str")
          => LET Result == IF val.formula = NoFormula THEN PyNone
                           ELSE val.formula[val.formula.type]
             IN  /\ out.exc = "none"
                 /\ out.ret = PyStr(IF Result = PyNone THEN "" ELSE py_str(Result))
    /\ (val.type = "rollup" /\ out.op = "str")
          => LET value == IF val.rollup = NoRollup THEN PyNone
                          ELSE val.rollup[val.rollup.type]
             IN  /\ out.exc = "none"
                 /\ out.ret = PyStr(IF value = PyNone THEN "" ELSE py_str(value))

\* C24: every operation on a Number that holds None raises: +, -, *, the four
\* ordering comparisons, int() and float() return nothing, and += and -=
\* raise and leave the Number holding None.
C24_NoneNumberAlwaysRaises ==
    /\ []((val.type = "number" /\ val.nat = PyNone /\ out.op # "init")
             => /\ out.exc \in {"TypeError", "ValueError"}
                /\ out.ret = PyNone
                /\ out.obj = NoVal)
    /\ [][(val.type = "number" /\ val.nat = PyNone)
             => /\ val' = val
                /\ out'.exc \in {"TypeError", "ValueError"}]_vars

\* None += 1 has raised TypeError and the Number still holds None
C24_Witness ==
    /\ val.type = "number"
    /\ val.nat = PyNone
    /\ out.op = "iadd"
    /\ out.other.nat = PyNum(1)
    /\ out.exc = "TypeError"

-----------------------------------------------------------------------------
(* Further properties of the page endpoints, checked under SpecEndpoint.   *)

\* C25: deleting a page is a soft delete: delete sends one update whose body
\* holds archived = true and nothing else, restore one update whose body holds
\* archived = false and nothing else (no cover, icon or properties), and a
\* restore right after the delete of the same page leaves the page object
\* un-archived and otherwise as the delete left it.
C25_DeleteIsArchiveOnly ==
    /\ []((ep.op \in {"pages.delete", "pages.restore"})
             => /\ Len(calls) = 1
                /\ calls[1].api = "pages.update"
                /\ calls[1].id = PageRef_compose(ep.ref).page_id
                /\ calls[1].body =
                      {Field("archived",
                             <<IF ep.op = "pages.delete" THEN "True" ELSE "False">>)})
    /\ [][(/\ ep.op = "pages.delete"
            /\ ep.exc = "none"
            /\ ep'.op = "pages.restore"
            /\ ep'.ref = ep.ref)
             => /\ ep'.exc = "none"
                /\ objs[ep.ref.id].archived = "True"
                /\ objs' = [objs EXCEPT ![ep.ref.id].archived = "False"]]_vars

\* a living page restored: one update with archived = false has been sent
C25_Witness ==
    /\ ep.op = "pages.restore"
    /\ ep.ref = [kind |-> "object", id |-> "p1"]
    /\ ep.exc = "none"
    /\ objs["p1"] = Response("False")
    /\ Len(calls) = 1

\* C26: PagesEndpoint.update sends the properties passed as keyword arguments
\* and only those when there are any, and the current properties of the page
\* when there are none; either way one update is sent and the page object
\* handed in is refreshed from the response and returned.
C26_UpdateSendsPassedOrAll ==
    (ep.op = "pages.update") =>
        /\ ep.exc = "none"
        /\ Len(calls) = 1
        /\ calls[1].api = "pages.update"
        /\ calls[1].id = ep.ref.id
        /\ calls[1].body =
              {Field("properties",
                     IF ep.args.properties = "None" THEN <<"page.properties">>
                     ELSE <<ep.args.properties>>)}
        /\ objs[ep.ref.id].src = "server"
        /\ ep.ret = ep.ref

\* an update with keyword arguments: only those have been sent
C26_Witness ==
    /\ ep.op = "pages.update"
    /\ ep.args.properties = "props"
    /\ Len(calls) = 1
    /\ calls[1].body = {Field("properties", <<"props">>)}
    /\ objs[ep.ref.id].src = "server"

\* C27: PagesEndpoint.create with no parent, or with a parent that is neither
\* a Page, a Database nor a ParentRef, raises ValueError without a transport
\* call; with a valid parent the request carries a properties object, empty
\* when neither properties nor a title were supplied, and the mapping the
\* caller passed as properties is after the call what it was before.
C27_CreateValidatesAndKeepsMapping ==
    (ep.op = "pages.create") =>
        /\ (ep.args.parent.kind \notin {"object", "ref"})
              => (ep.exc = "ValueError" /\ calls = <<>>)
        /\ (ep.args.parent.kind \in {"object", "ref"})
              => /\ ep.exc = "none"
                 /\ Len(calls) = 1
                 /\ "properties" \in Fields(calls[1].body)
                 /\ (ep.args.properties = "None" /\ ep.args.title = "None")
                       => Field("properties", <<>>) \in calls[1].body
        /\ (ep.args.properties # "None") => ep.args.caller = <<ep.args.properties>>

-----------------------------------------------------------------------------
(* A further property of the block endpoints, checked under SpecBlocks.    *)

\* C28: ChildrenEndpoint.append refreshes the blocks from the returned data:
\* whatever the argument list (None entries are left out of the request),
\* when the response holds one result per child that was sent, the call
\* returns without error or warning and every block sent has been refreshed.
C28_AppendRefreshesBlocksSent ==
    (/\ ep.op = "blocks.children.append"
     /\ ep.resp.has_results
     /\ ep.resp.n = Len(children_of(ep.blocks)))
        => /\ ep.exc = "none"
           /\ ep.log = <<>>
           /\ \A i \in DOMAIN ep.blocks :
                 (ep.blocks[i] # NoRef) => objs[ep.blocks[i].id].src = "server"

-----------------------------------------------------------------------------
(* A property of the MultiSelect built empty, checked under SpecMs.        *)

\* C29: starting from the empty MultiSelect, after any sequence of append,
\* remove, += and -= (the ones that raise included) no two selected options
\* have the same name, and the length of the MultiSelect is the number of
\* distinct names selected.
C29_NoDuplicateNames ==
    /\ prop.type = "multi_select"
    /\ \A i, j \in DOMAIN prop.items :
          (prop.items[i].name = prop.items[j].name) => i = j
    /\ Len(prop.items) = Cardinality({prop.items[i].name : i \in DOMAIN prop.items})

\* append("red", "red") on the empty MultiSelect has selected red once
C29_Witness ==
    /\ res.op = "append"
    /\ res.before = <<>>
    /\ Len(res.args) = 2
    /\ res.args[1] = res.args[2]
    /\ res.exc = "none"
    /\ Len(prop.items) = 1

=============================================================================
